---- MODULE Spec2Model ----
(***************************************************************************)
(* Model of the ASI Tiger property-binding and serial-transaction engine:  *)
(* property handlers (BeforeGet / AfterSet) of the single-axis, input and  *)
(* ring-buffer mixins, of the XY stage, the PLogic card and the PMT, over  *)
(* one shared hub channel.                                                 *)
(*                                                                         *)
(* A handler call is one atomic action.  Inside a call the code's steps    *)
(* are threaded through a context record c:                                *)
(*   c.hw    the controller's registers                                    *)
(*   c.devs  the peripherals (cached properties, flags)                    *)
(*   c.st    the function-local statics of the handlers                    *)
(*   c.upd   the hub's updatingSharedProperties_ flag                      *)
(*   c.ev    the events of the call (commands, parses, nested handlers)    *)
(*   c.n     number of wire steps (commands and parses) so far             *)
(*   c.ans   the hub's last-answer buffer                                  *)
(*   c.ret   the return code of the step just made                         *)
(* F is the set of wire steps of the call that fail (chosen by the         *)
(* environment: a serial timeout, a ":N" reply, an unparsable answer).     *)
(***************************************************************************)
EXTENDS Integers, Sequences, FiniteSets, TLC

VARIABLES hw, devs, st, last, calls

vars == <<hw, devs, st, last, calls>>

-----------------------------------------------------------------------------
(* Bounds of the model *)

\* number of property calls made after Initialize in one behaviour
MaxCalls == 2

\* at most this many wire steps of one call fail
MaxFails == 1

-----------------------------------------------------------------------------
(* Return codes *)

DEVICE_OK == "DEVICE_OK"
DEVICE_INVALID_PROPERTY_VALUE == "DEVICE_INVALID_PROPERTY_VALUE"
DEVICE_UNSUPPORTED_COMMAND == "DEVICE_UNSUPPORTED_COMMAND"
ERR_SERIAL == "ERR_SERIAL_COMMAND_FAILED"
ERR_PARSE == "ERR_UNRECOGNIZED_ANSWER"

g_YesState == "Yes"
g_NoState == "No"

BeforeGet == "BeforeGet"
AfterSet == "AfterSet"

-----------------------------------------------------------------------------
(* Bit arithmetic on the 8-bit SAP register *)

BIT0 == 2^0
BIT1 == 2^1
BIT2 == 2^2
BIT4 == 2^4
BIT5 == 2^5
BIT6 == 2^6
BIT7 == 2^7

\* x & mask, for a mask that is a sum of distinct powers of two below 2^8
RECURSIVE AndBits(_, _, _)
AndBits(x, mask, b) ==
    IF b > 7 THEN 0
    ELSE (IF ((x \div (2^b)) % 2 = 1) /\ ((mask \div (2^b)) % 2 = 1) THEN 2^b ELSE 0)
         + AndBits(x, mask, b + 1)

BitAnd(x, mask) == AndBits(x, mask, 0)

\* x & ~mask
BitClear(x, mask) == x - BitAnd(x, mask)

-----------------------------------------------------------------------------
(* Wire commands.  k: the command word, ax: the axis letter or card        *)
(* address it names, q: a query ("?"), v: the value written, delay: the    *)
(* milliseconds the hub waits after the command was sent.                  *)

Cmd(k, ax, q, v, v2) == [k |-> k, ax |-> ax, q |-> q, v |-> v, v2 |-> v2, delay |-> 0]
Query(k, ax) == Cmd(k, ax, TRUE, 0, 0)
Write(k, ax, v) == Cmd(k, ax, FALSE, v, 0)
Write2(k, ax, v, v2) == Cmd(k, ax, FALSE, v, v2)

\* the third argument of QueryCommandVerify(command, prefix, delayMs)
Delayed(cmd, delayMs) == [cmd EXCEPT !.delay = delayMs]
NoCmd == Cmd("none", "", FALSE, 0, 0)

\* the registers a command word reads and writes, one value per axis letter,
\* card address or channel named in the command
Registers ==
    {"SAP", "SAM", "SAF", "SAA", "SAO", "RM", "RT", "J", "JSX", "JSY", "JSF", "JST",
     "AA", "AZ", "WRDAC", "E", "PM", "B", "PC", "VE", "CCAX"}

\* the registers of the PLogic cell the pointer is on
CellRegisters == {"CCAY", "CCAZ", "CCBX", "CCBY", "CCBZ", "CCBF"}

\* the card an axis letter belongs to (the controller's own routing)
CardOfAxis(ax) == IF ax = "E" THEN "3" ELSE "1"

\* The doubles of the XY stage (speeds in mm/s, backlash and errors in
\* micrometres on the property side and millimetres on the wire) are kept in
\* fixed point, as integers in millionths: 1.5 is 1500000.

\* command << tmp for a double: the stream prints six significant digits
Format6(n) ==
    LET a == IF n < 0 THEN -n ELSE n
        k == IF a < 10^6 THEN 0 ELSE IF a < 10^7 THEN 1 ELSE IF a < 10^8 THEN 2
             ELSE IF a < 10^9 THEN 3 ELSE 4
        r == ((a + (10^k) \div 2) \div (10^k)) * (10^k)
    IN  IF n < 0 THEN -r ELSE r

\* the speed the controller takes for a requested one: inside its range of
\* 0.25 to 2 mm/s and on its grid of 0.25 mm/s
HwSpeed(v) ==
    LET w == IF v > 2000000 THEN 2000000 ELSE IF v < 250000 THEN 250000 ELSE v
    IN  w - (w % 250000)

\* what the controller does with an acknowledged command
HwExec(h, cmd) ==
    IF cmd.q THEN h
    ELSE CASE cmd.k \in Registers -> [h EXCEPT ![cmd.k][cmd.ax] = cmd.v]
           [] cmd.k = "S" -> [h EXCEPT !.S[cmd.ax] = HwSpeed(cmd.v)]
           [] cmd.k \in {"RMF", "RMX"} -> [h EXCEPT !.RM[cmd.ax] = cmd.v]
           [] cmd.k = "JSXY" -> [h EXCEPT !.JSX[cmd.ax] = cmd.v, !.JSY[cmd.ax] = cmd.v2]
           [] cmd.k = "JSFT" -> [h EXCEPT !.JSF[cmd.ax] = cmd.v, !.JST[cmd.ax] = cmd.v2]
           [] cmd.k = "JXY" -> [h EXCEPT !.J["X"] = cmd.v, !.J["Y"] = cmd.v2]
           [] cmd.k = "M" -> [h EXCEPT !.pos[CardOfAxis(cmd.ax)] = cmd.v]
           [] cmd.k \in CellRegisters -> [h EXCEPT !.cell[cmd.ax][h.pos[cmd.ax]][cmd.k] = cmd.v]
           [] OTHER -> h

\* the value the controller reports in its answer
HwReply(h, cmd) ==
    IF ~cmd.q THEN 0
    ELSE CASE cmd.k \in Registers -> h[cmd.k][cmd.ax]
           [] cmd.k = "S" -> h.S[cmd.ax]
           [] cmd.k \in {"RMF", "RMX"} -> h.RM[cmd.ax]
           [] cmd.k = "W" -> h.pos[CardOfAxis(cmd.ax)]
           [] cmd.k \in CellRegisters -> h.cell[cmd.ax][h.pos[cmd.ax]][cmd.k]
           [] OTHER -> 0

-----------------------------------------------------------------------------
(* The hub's transaction channel *)

\* a statement of the code: x is computed, then K goes on with its value
Let(x, K(_)) == CHOOSE r \in {K(v) : v \in {x}} : TRUE

NoAns == [has |-> FALSE, val |-> 0]

Ev(t, cmd, ok, c, dev, prop) ==
    [t |-> t, cmd |-> cmd, ok |-> ok, upd |-> c.upd, dev |-> dev, prop |-> prop]

NewCtx(h, ds, s) ==
    [hw |-> h, devs |-> ds, st |-> s, upd |-> FALSE, ev |-> <<>>, n |-> 0,
     ans |-> NoAns, ret |-> DEVICE_OK]

\* hub_->QueryCommandVerify(command, expectedReplyPrefix): one complete
\* round trip; the answer replaces the last-answer buffer.  The event of a
\* query carries the value of the reply.
QueryCommandVerify(c, F, cmd) ==
    LET k == c.n + 1
        ok == k \notin F
        sent == IF cmd.q /\ ok THEN [cmd EXCEPT !.v = HwReply(c.hw, cmd)] ELSE cmd
    IN  [c EXCEPT !.n = k,
                  !.ev = Append(@, Ev("cmd", sent, ok, c, "", "")),
                  !.hw = IF ok THEN HwExec(c.hw, cmd) ELSE @,
                  !.ans = IF ok THEN [has |-> TRUE, val |-> HwReply(c.hw, cmd)] ELSE NoAns,
                  !.ret = IF ok THEN DEVICE_OK ELSE ERR_SERIAL]

\* hub_->ParseAnswerAfterEquals(val): parses the last-answer buffer; the
\* parsed value is c.ans.val, and the event of the parse carries it
ParseAnswerAfterEquals(c, F) ==
    LET k == c.n + 1
        ok == (k \notin F) /\ c.ans.has
    IN  [c EXCEPT !.n = k,
                  !.ev = Append(@, Ev("parse", [NoCmd EXCEPT !.v = c.ans.val], ok, c, "", "")),
                  !.ret = IF ok THEN DEVICE_OK ELSE ERR_PARSE]

Ret(c, code) == [c EXCEPT !.ret = code]

\* pProp->Set(v) of property prop of device d
PropSet(c, d, prop, v) == [c EXCEPT !.devs[d].props[prop] = v, !.ret = DEVICE_OK]

PropGet(c, d, prop) == c.devs[d].props[prop]

HasProperty(c, d, prop) == prop \in DOMAIN c.devs[d].props

SkipRefresh_Never(c, d) == FALSE

\* the refresh-avoidance check of the read path
SkipRefresh(c, d) == ~c.devs[d].refreshProps /\ c.devs[d].initialized

QueryAndParse_Interleaved(c, F, cmd) ==
    Let(QueryCommandVerify(c, F, cmd), LAMBDA c1 :
    Let(QueryCommandVerify(c1, F, Write("RMGO", "1", 0)), LAMBDA c2 :
        IF c1.ret # DEVICE_OK THEN c1
        ELSE IF c2.ret # DEVICE_OK THEN c2
        ELSE ParseAnswerAfterEquals([c2 EXCEPT !.ans = c1.ans], F)))

\* RETURN_ON_MM_ERROR(QueryCommandVerify(..)); RETURN_ON_MM_ERROR(ParseAnswerAfterEquals(..))
QueryAndParse(c, F, cmd) ==
    Let(QueryCommandVerify(c, F, cmd), LAMBDA c1 :
        IF c1.ret # DEVICE_OK THEN c1 ELSE ParseAnswerAfterEquals(c1, F))

\* CreateProperty: a property that exists already is left as it is
CreateProperty(c, d, prop, v) ==
    IF HasProperty(c, d, prop) THEN c
    ELSE [c EXCEPT !.devs[d].props = (prop :> v) @@ @]

\* a comparison that lets the release before the named one pass
FirmwareVersionAtLeast_OffByOne(dv, v) == dv.fw >= v - 1

\* firmware versions are kept in hundredths (3.14 is 314)
FirmwareVersionAtLeast(dv, v) == dv.fw >= v

-----------------------------------------------------------------------------
(* MixinSingleAxis: property names and values *)

g_SAAmplitudePropertyName == "g_SAAmplitudePropertyName"
g_SAOffsetPropertyName == "g_SAOffsetPropertyName"
g_SAPeriodPropertyName == "g_SAPeriodPropertyName"
g_SAModePropertyName == "g_SAModePropertyName"
g_SAPatternPropertyName == "g_SAPatternPropertyName"
g_AdvancedSAPropertiesPropertyName == "g_AdvancedSAPropertiesPropertyName"
g_SAClkSrcPropertyName == "g_SAClkSrcPropertyName"
g_SAClkPolPropertyName == "g_SAClkPolPropertyName"
g_SATTLOutPropertyName == "g_SATTLOutPropertyName"
g_SATTLPolPropertyName == "g_SATTLPolPropertyName"
g_SAPatternModePropertyName == "g_SAPatternModePropertyName"

g_SAMode_0 == "g_SAMode_0"
g_SAMode_1 == "g_SAMode_1"
g_SAMode_2 == "g_SAMode_2"
g_SAMode_3 == "g_SAMode_3"
g_SAPattern_0 == "g_SAPattern_0"
g_SAPattern_1 == "g_SAPattern_1"
g_SAPattern_2 == "g_SAPattern_2"
g_SAPattern_3 == "g_SAPattern_3"
g_SAClkSrc_0 == "g_SAClkSrc_0"
g_SAClkSrc_1 == "g_SAClkSrc_1"
g_SAClkPol_0 == "g_SAClkPol_0"
g_SAClkPol_1 == "g_SAClkPol_1"
g_SATTLOut_0 == "g_SATTLOut_0"
g_SATTLOut_1 == "g_SATTLOut_1"
g_SATTLPol_0 == "g_SATTLPol_0"
g_SATTLPol_1 == "g_SATTLPol_1"

\* a string no property lists among its allowed values
BogusValue == "not-an-allowed-value"

(* Ring buffer, save-settings, joystick and wheel: property names and values *)

g_RB_ModePropertyName == "g_RB_ModePropertyName"
g_RB_DelayPropertyName == "g_RB_DelayPropertyName"
g_RB_TriggerPropertyName == "g_RB_TriggerPropertyName"
g_RB_AutoplayRunningPropertyName == "g_RB_AutoplayRunningPropertyName"
g_UseSequencePropertyName == "g_UseSequencePropertyName"
g_SaveSettingsPropertyName == "g_SaveSettingsPropertyName"

g_RB_OnePoint_1 == "g_RB_OnePoint_1"
g_RB_PlayOnce_2 == "g_RB_PlayOnce_2"
g_RB_PlayRepeat_3 == "g_RB_PlayRepeat_3"
g_IdleState == "g_IdleState"
g_DoItState == "g_DoItState"
g_DoneState == "g_DoneState"
g_SaveSettingsOrig == "g_SaveSettingsOrig"
g_SaveSettingsX == "g_SaveSettingsX"
g_SaveSettingsY == "g_SaveSettingsY"
g_SaveSettingsZ == "g_SaveSettingsZ"
g_SaveSettingsZJoystick == "g_SaveSettingsZJoystick"
g_SaveSettingsDone == "g_SaveSettingsDone"

g_JoystickSelectPropertyName == "g_JoystickSelectPropertyName"
g_JoystickFastSpeedPropertyName == "g_JoystickFastSpeedPropertyName"
g_JoystickSlowSpeedPropertyName == "g_JoystickSlowSpeedPropertyName"
g_JoystickMirrorPropertyName == "g_JoystickMirrorPropertyName"
g_JoystickRotatePropertyName == "g_JoystickRotatePropertyName"
g_JoystickEnabledPropertyName == "g_JoystickEnabledPropertyName"
g_WheelFastSpeedPropertyName == "g_WheelFastSpeedPropertyName"
g_WheelSlowSpeedPropertyName == "g_WheelSlowSpeedPropertyName"
g_WheelMirrorPropertyName == "g_WheelMirrorPropertyName"

g_JSCode_0 == "g_JSCode_0"
g_JSCode_1 == "g_JSCode_1"
g_JSCode_2 == "g_JSCode_2"
g_JSCode_3 == "g_JSCode_3"
g_JSCode_22 == "g_JSCode_22"
g_JSCode_23 == "g_JSCode_23"

(* XY stage: the advanced properties *)

g_AdvancedPropertiesPropertyName == "g_AdvancedPropertiesPropertyName"
g_AAlignPropertyName == "g_AAlignPropertyName"
g_AZeroXPropertyName == "g_AZeroXPropertyName"
g_MotorSpeedXPropertyName == "g_MotorSpeedXPropertyName"
g_MotorSpeedYPropertyName == "g_MotorSpeedYPropertyName"
g_MotorSpeedXMicronsPerSecPropertyName == "g_MotorSpeedXMicronsPerSecPropertyName"
g_MotorSpeedYMicronsPerSecPropertyName == "g_MotorSpeedYMicronsPerSecPropertyName"
g_BacklashXPropertyName == "g_BacklashXPropertyName"
g_BacklashYPropertyName == "g_BacklashYPropertyName"
g_DriftErrorXPropertyName == "g_DriftErrorXPropertyName"
g_DriftErrorYPropertyName == "g_DriftErrorYPropertyName"
g_FinishErrorXPropertyName == "g_FinishErrorXPropertyName"
g_FinishErrorYPropertyName == "g_FinishErrorYPropertyName"
g_VectorXPropertyName == "g_VectorXPropertyName"
g_VectorYPropertyName == "g_VectorYPropertyName"

(* PMT: property names *)

g_PMTGainPropertyName == "g_PMTGainPropertyName"
g_PMTAVGPropertyName == "g_PMTAVGPropertyName"

(* PLogic: property names and values *)

g_PointerPositionPropertyName == "g_PointerPositionPropertyName"
g_TriggerSourcePropertyName == "g_TriggerSourcePropertyName"
g_EditCellTypePropertyName == "g_EditCellTypePropertyName"
g_EditCellConfigPropertyName == "g_EditCellConfigPropertyName"
g_EditCellInput1PropertyName == "g_EditCellInput1PropertyName"
g_EditCellInput2PropertyName == "g_EditCellInput2PropertyName"
g_EditCellInput3PropertyName == "g_EditCellInput3PropertyName"
g_EditCellInput4PropertyName == "g_EditCellInput4PropertyName"
g_EditCellUpdateAutomaticallyPropertyName == "g_EditCellUpdateAutomaticallyPropertyName"
g_SetCardPresetPropertyName == "g_SetCardPresetPropertyName"
g_SetChannelPropertyName == "g_SetChannelPropertyName"

g_PLogicModeNone == "g_PLogicModeNone"
g_PLogicModediSPIMShutter == "g_PLogicModediSPIMShutter"
g_PLogicMode4ChShutter == "g_PLogicMode4ChShutter"
g_PLogicMode7ChShutter == "g_PLogicMode7ChShutter"
g_PLogicMode7ChTTLShutter == "g_PLogicMode7ChTTLShutter"

g_PresetCodeNone == "g_PresetCodeNone"
g_PresetCode12_original == "g_PresetCode12_original"
\* g_PresetCode0 .. g_PresetCode60
g_PresetCode(n) == "g_PresetCode" \o ToString(n)

g_4ChannelNone == "g_4ChannelNone"
g_7ChannelNone == "g_7ChannelNone"
g_ChannelOnly5 == "g_ChannelOnly5"
g_ChannelOnly6 == "g_ChannelOnly6"

\* the numbers of the presets AddAllowedValue registers for the preset
\* selector
PresetNumbers(dv) ==
    (0..4) \cup {10, 11, 13, 14}
    \cup (IF dv.useAs4ChShutter THEN 5..9 ELSE {})
    \cup (IF dv.fw >= 308 THEN {12} ELSE {})
    \cup (IF dv.fw >= 306 THEN 15..19 ELSE {})
    \cup (IF dv.fw >= 307 THEN 20..22 ELSE {})
    \cup (IF dv.fw >= 309 THEN 23..26 ELSE {})
    \cup (IF dv.fw >= 317 THEN {27} ELSE {})
    \cup (IF dv.fw >= 319 THEN 28..33 ELSE {})
    \cup (IF dv.fw >= 323 THEN {34, 35} ELSE {})
    \cup (IF dv.fw >= 327 THEN {36} ELSE {})
    \cup (IF dv.fw >= 329 /\ dv.useAs7ChShutter THEN 37..51 ELSE {})
    \cup (IF dv.fw >= 331 THEN {52} ELSE {})
    \cup (IF dv.fw >= 335 /\ dv.useAs7ChShutter THEN {53, 54} ELSE {})
    \cup (IF dv.fw >= 337 /\ dv.useAs7ChShutter THEN 55..59 ELSE {})
    \cup (IF dv.fw >= 351 THEN {60} ELSE {})

\* g_TriggerSourceCode0 .. g_TriggerSourceCode4
g_TriggerSourceCode(n) == "g_TriggerSourceCode" \o ToString(n)
\* g_CellTypeCode0 .. g_CellTypeCode18
g_CellTypeCode(n) == "g_CellTypeCode" \o ToString(n)
\* g_IOTypeCode0 .. g_IOTypeCode2
g_IOTypeCode(n) == "g_IOTypeCode" \o ToString(n)

PLOGIC_FRONTPANEL_START_ADDRESS == 33
PLOGIC_BACKPLANE_START_ADDRESS == 41
PLOGIC_BACKPLANE_END_ADDRESS == 48
PLOGIC_PHYSICAL_IO_START_ADDRESS == PLOGIC_FRONTPANEL_START_ADDRESS
PLOGIC_PHYSICAL_IO_END_ADDRESS == PLOGIC_BACKPLANE_END_ADDRESS

\* numCells_ as the constructor sets it
numCells_ == 16

\* "PCell_" << setw(2) << setfill('0') << index << suffix
GetCellPropertyName(index, suffix) ==
    "PCell_" \o (IF index < 10 THEN "0" ELSE "") \o ToString(index) \o suffix

GetIOPropertyName(index, suffix) ==
    (IF index < PLOGIC_BACKPLANE_START_ADDRESS
     THEN "IOFrontpanel_" \o ToString(index - PLOGIC_FRONTPANEL_START_ADDRESS + 1)
     ELSE "IOBackplane_" \o ToString(index - PLOGIC_BACKPLANE_START_ADDRESS))
    \o suffix

\* the names of the per-cell and per-I/O properties of one suffix, and
\* the address a name was made for
CellPropertyNames(suffix) == {GetCellPropertyName(i, suffix) : i \in 1..numCells_}
IOPropertyNames(suffix) ==
    {GetIOPropertyName(i, suffix) :
        i \in PLOGIC_FRONTPANEL_START_ADDRESS..PLOGIC_BACKPLANE_END_ADDRESS}
CellIndexOf(prop, suffix) == CHOOSE i \in 1..numCells_ : prop = GetCellPropertyName(i, suffix)
IOIndexOf(prop, suffix) ==
    CHOOSE i \in PLOGIC_FRONTPANEL_START_ADDRESS..PLOGIC_BACKPLANE_END_ADDRESS :
        prop = GetIOPropertyName(i, suffix)

\* the kinds of peripheral
CZStage == "CZStage"
CXYStage == "CXYStage"
CPMT == "CPMT"
CPLogic == "CPLogic"

-----------------------------------------------------------------------------
(* The property layer of the framework (DeviceBase) *)

g_RefreshPropValsPropertyName == "g_RefreshPropValsPropertyName"

RECURSIVE Invoke(_, _, _, _, _)

DEVICE_INVALID_PROPERTY == "DEVICE_INVALID_PROPERTY"

\* UpdateProperty(name): runs the property's handler with BeforeGet
UpdateProperty(c, F, d, prop) ==
    IF prop \in DOMAIN c.devs[d].props THEN Invoke(c, F, d, prop, BeforeGet)
    ELSE [c EXCEPT !.ret = DEVICE_INVALID_PROPERTY]

\* GetProperty(name, value): UpdateProperty, then the cached value is read
GetProperty(c, F, d, prop) == UpdateProperty(c, F, d, prop)

\* the values AddAllowedValue registered for a property; {} when any value
\* is allowed
AllowedValues(dv, prop) ==
    CASE prop = g_SAModePropertyName -> {g_SAMode_0, g_SAMode_1, g_SAMode_2, g_SAMode_3}
      [] prop = g_SAPatternPropertyName ->
            {g_SAPattern_0, g_SAPattern_1, g_SAPattern_2}
            \cup (IF FirmwareVersionAtLeast(dv, 314) THEN {g_SAPattern_3} ELSE {})
      [] prop = g_AdvancedSAPropertiesPropertyName -> {g_NoState, g_YesState}
      [] prop = g_SAClkSrcPropertyName -> {g_SAClkSrc_0, g_SAClkSrc_1}
      [] prop = g_SAClkPolPropertyName -> {g_SAClkPol_0, g_SAClkPol_1}
      [] prop = g_SATTLOutPropertyName -> {g_SATTLOut_0, g_SATTLOut_1}
      [] prop = g_SATTLPolPropertyName -> {g_SATTLPol_0, g_SATTLPol_1}
      [] prop = g_RefreshPropValsPropertyName -> {g_NoState, g_YesState}
      [] prop = g_RB_ModePropertyName -> {g_RB_OnePoint_1, g_RB_PlayOnce_2, g_RB_PlayRepeat_3}
      [] prop = g_RB_TriggerPropertyName -> {g_IdleState, g_DoItState, g_DoneState}
      [] prop = g_RB_AutoplayRunningPropertyName -> {g_NoState, g_YesState}
      [] prop = g_SaveSettingsPropertyName ->
            {g_SaveSettingsX, g_SaveSettingsY, g_SaveSettingsZ, g_SaveSettingsOrig,
             g_SaveSettingsDone}
            \cup (IF dv.kind = CXYStage THEN {g_SaveSettingsZJoystick} ELSE {})
      [] prop = g_JoystickSelectPropertyName ->
            {g_JSCode_0, g_JSCode_2, g_JSCode_3, g_JSCode_22, g_JSCode_23}
      [] prop = g_JoystickMirrorPropertyName -> {g_NoState, g_YesState}
      [] prop = g_JoystickRotatePropertyName -> {g_NoState, g_YesState}
      [] prop = g_JoystickEnabledPropertyName -> {g_NoState, g_YesState}
      [] prop = g_WheelMirrorPropertyName -> {g_NoState, g_YesState}
      [] prop = g_AdvancedPropertiesPropertyName -> {g_NoState, g_YesState}
      [] prop = g_UseSequencePropertyName -> {g_NoState, g_YesState}
      [] prop = g_TriggerSourcePropertyName -> {g_TriggerSourceCode(n) : n \in 0..4}
      [] prop = g_EditCellTypePropertyName ->
            {g_CellTypeCode(n) : n \in 0..15}
            \cup (IF FirmwareVersionAtLeast(dv, 350)
                  THEN {g_CellTypeCode(16), g_CellTypeCode(17)} ELSE {})
            \cup (IF FirmwareVersionAtLeast(dv, 351) THEN {g_CellTypeCode(18)} ELSE {})
            \cup {g_IOTypeCode(n) : n \in 0..2}
      [] prop = g_EditCellUpdateAutomaticallyPropertyName -> {g_NoState, g_YesState}
      [] prop = g_SetCardPresetPropertyName ->
            {g_PresetCodeNone} \cup {g_PresetCode(n) : n \in PresetNumbers(dv)}
            \cup (IF dv.fw >= 308 THEN {} ELSE {g_PresetCode12_original})
      [] prop = g_SetChannelPropertyName ->
            IF dv.useAs4ChShutter THEN {g_4ChannelNone, g_ChannelOnly5, g_ChannelOnly6}
            ELSE IF dv.fw >= 329 THEN {g_7ChannelNone, g_ChannelOnly5, g_ChannelOnly6}
            ELSE {}
      [] prop \in CellPropertyNames("_CellType") ->
            {g_CellTypeCode(n) : n \in 0..15}
            \cup (IF FirmwareVersionAtLeast(dv, 350)
                  THEN {g_CellTypeCode(16), g_CellTypeCode(17)} ELSE {})
      [] prop \in IOPropertyNames("_IOType") -> {g_IOTypeCode(n) : n \in 0..2}
      [] OTHER -> {}

DEVICE_NO_PROPERTY_DATA == "DEVICE_NO_PROPERTY_DATA"

\* the number AddAllowedValue(name, value, data) attached to a value; -1
\* when the value has none
PropertyData(prop, v) ==
    CASE prop = g_TriggerSourcePropertyName ->
            IF \E n \in 0..4 : v = g_TriggerSourceCode(n)
            THEN CHOOSE n \in 0..4 : v = g_TriggerSourceCode(n) ELSE -1
      [] prop = g_EditCellTypePropertyName ->
            IF \E n \in 0..18 : v = g_CellTypeCode(n)
            THEN CHOOSE n \in 0..18 : v = g_CellTypeCode(n)
            ELSE IF \E n \in 0..2 : v = g_IOTypeCode(n)
                 THEN 100 + (CHOOSE n \in 0..2 : v = g_IOTypeCode(n)) ELSE -1
      [] prop = g_SetCardPresetPropertyName ->
            IF \E n \in 0..60 : v = g_PresetCode(n)
            THEN CHOOSE n \in 0..60 : v = g_PresetCode(n)
            ELSE IF v = g_PresetCode12_original THEN 12 ELSE -1
      [] prop \in CellPropertyNames("_CellType") ->
            IF \E n \in 0..17 : v = g_CellTypeCode(n)
            THEN CHOOSE n \in 0..17 : v = g_CellTypeCode(n) ELSE -1
      [] prop \in IOPropertyNames("_IOType") ->
            IF \E n \in 0..2 : v = g_IOTypeCode(n)
            THEN 100 + (CHOOSE n \in 0..2 : v = g_IOTypeCode(n)) ELSE -1
      [] OTHER -> -1

\* the preset number AddAllowedValue attached to a value of the shutter
\* channel: the 4-channel and the 7-channel shutter use different presets
ChannelData(dv, v) ==
    IF dv.useAs4ChShutter
    THEN CASE v = g_4ChannelNone -> 9
           [] v = g_ChannelOnly5 -> 5
           [] v = g_ChannelOnly6 -> 6
           [] OTHER -> -1
    ELSE CASE v = g_7ChannelNone -> 50
           [] v = g_ChannelOnly5 -> 41
           [] v = g_ChannelOnly6 -> 42
           [] OTHER -> -1

\* SetPropertyLimits(name, lo, hi)
HasLimits(prop) ==
    prop \in {g_SAPatternModePropertyName, g_JoystickFastSpeedPropertyName,
              g_JoystickSlowSpeedPropertyName, g_WheelFastSpeedPropertyName,
              g_WheelSlowSpeedPropertyName, g_PMTGainPropertyName, g_PMTAVGPropertyName,
              g_MotorSpeedXPropertyName, g_MotorSpeedYPropertyName,
              g_VectorXPropertyName, g_VectorYPropertyName}

\* the limits of the motor speeds and the vectors are the speeds the
\* controller reported in getMinMaxSpeed for a request far below and far
\* above its range
LowerLimit(prop) ==
    CASE prop \in {g_MotorSpeedXPropertyName, g_MotorSpeedYPropertyName} -> HwSpeed(1)
      [] prop \in {g_VectorXPropertyName, g_VectorYPropertyName} -> -HwSpeed(2 * 10^9)
      [] OTHER -> 0
UpperLimit(prop) ==
    CASE prop = g_SAPatternModePropertyName -> 255
      [] prop \in {g_MotorSpeedXPropertyName, g_MotorSpeedYPropertyName,
                   g_VectorXPropertyName, g_VectorYPropertyName} -> HwSpeed(2 * 10^9)
      [] prop = g_PMTGainPropertyName -> 1000
      [] prop = g_PMTAVGPropertyName -> 5
      [] OTHER -> 100

\* if (!pProp->Set(v)) return DEVICE_INVALID_PROPERTY_VALUE: a property with
\* limits refuses a value outside them
PropSetChecked(c, d, prop, v) ==
    IF HasLimits(prop) /\ (v < LowerLimit(prop) \/ v > UpperLimit(prop))
    THEN Ret(c, DEVICE_INVALID_PROPERTY_VALUE)
    ELSE PropSet(c, d, prop, v)

IsAllowed(dv, prop, v) ==
    IF AllowedValues(dv, prop) # {} THEN v \in AllowedValues(dv, prop)
    ELSE IF HasLimits(prop) THEN v >= LowerLimit(prop) /\ v <= UpperLimit(prop)
    ELSE TRUE

\* SetProperty(name, value): the value is checked against the allowed
\* values, stored, and the handler runs with AfterSet
SetProperty(c, F, d, prop, v) ==
    IF ~HasProperty(c, d, prop) THEN Ret(c, DEVICE_INVALID_PROPERTY)
    ELSE IF ~IsAllowed(c.devs[d], prop, v) THEN Ret(c, DEVICE_INVALID_PROPERTY_VALUE)
    ELSE Invoke(PropSet(c, d, prop, v), F, d, prop, AfterSet)

\* OnRefreshProperties: the refresh flag follows the property
OnRefreshProperties(c, F, d, eAct) ==
    IF eAct = AfterSet
    THEN [c EXCEPT !.devs[d].refreshProps = (PropGet(c, d, g_RefreshPropValsPropertyName) = g_YesState),
                   !.ret = DEVICE_OK]
    ELSE Ret(c, DEVICE_OK)

-----------------------------------------------------------------------------
(* The hub's shared-property propagation *)

ERR_PROPAGATION == "ERR_PROPAGATION"

\* hub_->UpdatingSharedProperties()
UpdatingSharedProperties(c) == c.upd

\* the registered peripherals, other than d, on d's card that have a
\* property of this name
Siblings(c, d, prop) ==
    {s \in DOMAIN c.devs \ {d} :
        /\ c.devs[s].addr = c.devs[d].addr
        /\ c.devs[s].initialized
        /\ prop \in DOMAIN c.devs[s].props}

\* the value is set on each sibling in turn; what a sibling's set returns
\* is dropped
RECURSIVE PushToSiblings(_, _, _, _, _)
PushToSiblings(c, F, S, prop, value) ==
    IF S = {} THEN c
    ELSE LET s == CHOOSE x \in S : TRUE
         IN  PushToSiblings(SetProperty(c, F, s, prop, value), F, S \ {s}, prop, value)

\* hub_->UpdateSharedProperties(addressChar, propName, value): the flag is
\* raised around the sibling updates.  The propagation is one step of the
\* call that the environment can fail; a failed propagation reaches no
\* sibling and is reported to the caller.
UpdateSharedProperties(c, F, d, prop, value) ==
    LET k == c.n + 1
        ok == k \notin F
        c0 == [c EXCEPT !.n = k, !.upd = TRUE,
                        !.ev = Append(@, Ev("prop", NoCmd, ok, c, d, prop))]
        c1 == IF ok THEN PushToSiblings(c0, F, Siblings(c, d, prop), prop, value) ELSE c0
    IN  [c1 EXCEPT !.upd = FALSE, !.ret = IF ok THEN DEVICE_OK ELSE ERR_PROPAGATION]

-----------------------------------------------------------------------------
(* MixinSingleAxis: handlers *)

\* GetUnitMult(): controller units per property unit
GetUnitMult(dv) == 1000

\* amplitude ("SAA") and offset ("SAO") share one shape
SingleAxisScaled(c, F, d, eAct, prop, reg) ==
    LET ax == c.devs[d].axisLetter
    IN  IF eAct = BeforeGet
        THEN IF SkipRefresh(c, d) THEN Ret(c, DEVICE_OK)
             ELSE Let(QueryAndParse(c, F, Query(reg, ax)), LAMBDA c2 :
                      IF c2.ret # DEVICE_OK THEN c2
                      ELSE PropSet(c2, d, prop, c2.ans.val \div GetUnitMult(c.devs[d])))
        ELSE QueryCommandVerify(c, F,
                Write(reg, ax, Format6(PropGet(c, d, prop) * GetUnitMult(c.devs[d]))))

SingleAxisAmplitude(c, F, d, eAct) ==
    SingleAxisScaled(c, F, d, eAct, g_SAAmplitudePropertyName, "SAA")

SingleAxisOffset(c, F, d, eAct) ==
    SingleAxisScaled(c, F, d, eAct, g_SAOffsetPropertyName, "SAO")

SingleAxisPeriod(c, F, d, eAct) ==
    LET ax == c.devs[d].axisLetter
    IN  IF eAct = BeforeGet
        THEN IF SkipRefresh(c, d) THEN Ret(c, DEVICE_OK)
             ELSE Let(QueryAndParse(c, F, Query("SAF", ax)), LAMBDA c2 :
                      IF c2.ret # DEVICE_OK THEN c2
                      ELSE PropSet(c2, d, g_SAPeriodPropertyName, c2.ans.val))
        ELSE QueryCommandVerify(c, F, Write("SAF", ax, PropGet(c, d, g_SAPeriodPropertyName)))

\* a decoding that takes every unknown code for the first mode
SAModeOfCode_Lenient(tmp) ==
    CASE tmp = 1 -> g_SAMode_1
      [] tmp = 2 -> g_SAMode_2
      [] tmp = 3 -> g_SAMode_3
      [] OTHER -> g_SAMode_0

SAModeOfCode(tmp) ==
    CASE tmp = 0 -> g_SAMode_0
      [] tmp = 1 -> g_SAMode_1
      [] tmp = 2 -> g_SAMode_2
      [] tmp = 3 -> g_SAMode_3
      [] OTHER -> ""

SAModeToCode(tmpstr) ==
    CASE tmpstr = g_SAMode_0 -> 0
      [] tmpstr = g_SAMode_1 -> 1
      [] tmpstr = g_SAMode_2 -> 2
      [] tmpstr = g_SAMode_3 -> 3
      [] OTHER -> -1

SingleAxisMode(c, F, d, eAct) ==
    LET ax == c.devs[d].axisLetter
    IN  IF eAct = BeforeGet
        THEN IF SkipRefresh(c, d) /\ ~c.st.SAMode_justSet THEN Ret(c, DEVICE_OK)
             ELSE Let(QueryAndParse(c, F, Query("SAM", ax)), LAMBDA c2 :
                      IF c2.ret # DEVICE_OK THEN c2
                      ELSE IF SAModeOfCode(c2.ans.val) = ""
                           THEN Ret(c2, DEVICE_INVALID_PROPERTY_VALUE)
                           ELSE [PropSet(c2, d, g_SAModePropertyName, SAModeOfCode(c2.ans.val))
                                    EXCEPT !.st.SAMode_justSet = FALSE])
        ELSE LET tmp == SAModeToCode(PropGet(c, d, g_SAModePropertyName))
             IN  IF tmp = -1 THEN Ret(c, DEVICE_INVALID_PROPERTY_VALUE)
                 ELSE Let(QueryCommandVerify(c, F, Write("SAM", ax, tmp)), LAMBDA c1 :
                          IF c1.ret # DEVICE_OK THEN c1
                          ELSE [c1 EXCEPT !.st.SAMode_justSet = TRUE])

SAPatternOfCode(tmp) ==
    CASE tmp = 0 -> g_SAPattern_0
      [] tmp = 1 -> g_SAPattern_1
      [] tmp = 2 -> g_SAPattern_2
      [] tmp = 3 -> g_SAPattern_3
      [] OTHER -> ""

SAPatternToCode(tmpstr) ==
    CASE tmpstr = g_SAPattern_0 -> 0
      [] tmpstr = g_SAPattern_1 -> 1
      [] tmpstr = g_SAPattern_2 -> 2
      [] tmpstr = g_SAPattern_3 -> 3
      [] OTHER -> -1

SAPModifyWrite_NoMerge(c, F, ax, mask, tmp) ==
    Let(QueryAndParse(c, F, Query("SAP", ax)), LAMBDA c2 :
        IF c2.ret # DEVICE_OK THEN c2
        ELSE QueryCommandVerify(c2, F, Write("SAP", ax, tmp)))

\* the read-modify-write of one field of the SAP register: read the
\* register, clear the field's bits, add the field's new code, write back
SAPModifyWrite(c, F, ax, mask, tmp) ==
    Let(QueryAndParse(c, F, Query("SAP", ax)), LAMBDA c2 :
        IF c2.ret # DEVICE_OK THEN c2
        ELSE QueryCommandVerify(c2, F, Write("SAP", ax, tmp + BitClear(c2.ans.val, mask))))

SingleAxisPattern(c, F, d, eAct) ==
    LET ax == c.devs[d].axisLetter
    IN  IF eAct = BeforeGet
        THEN IF SkipRefresh(c, d) THEN Ret(c, DEVICE_OK)
             ELSE Let(QueryAndParse(c, F, Query("SAP", ax)), LAMBDA c2 :
                  LET tmp == BitAnd(c2.ans.val, BIT2 + BIT1 + BIT0)
                  IN  IF c2.ret # DEVICE_OK THEN c2
                      ELSE IF SAPatternOfCode(tmp) = ""
                           THEN Ret(c2, DEVICE_INVALID_PROPERTY_VALUE)
                           ELSE PropSet(c2, d, g_SAPatternPropertyName, SAPatternOfCode(tmp)))
        ELSE LET tmp == SAPatternToCode(PropGet(c, d, g_SAPatternPropertyName))
             IN  IF tmp = -1 THEN Ret(c, DEVICE_INVALID_PROPERTY_VALUE)
                 ELSE SAPModifyWrite(c, F, ax, BIT2 + BIT1 + BIT0, tmp)

\* the four one-bit fields share one shape: name, bit, value for 0, value for 1
SingleAxisBit(c, F, d, eAct, prop, bit, v0, v1) ==
    LET ax == c.devs[d].axisLetter
    IN  IF eAct = BeforeGet
        THEN IF SkipRefresh(c, d) THEN Ret(c, DEVICE_OK)
             ELSE Let(QueryAndParse(c, F, Query("SAP", ax)), LAMBDA c2 :
                  LET tmp == BitAnd(c2.ans.val, bit)
                  IN  IF c2.ret # DEVICE_OK THEN c2
                      ELSE PropSet(c2, d, prop, IF tmp = 0 THEN v0 ELSE v1))
        ELSE LET tmpstr == PropGet(c, d, prop)
             IN  IF tmpstr \notin {v0, v1} THEN Ret(c, DEVICE_INVALID_PROPERTY_VALUE)
                 ELSE SAPModifyWrite(c, F, ax, bit, IF tmpstr = v0 THEN 0 ELSE bit)

SingleAxisClockSource(c, F, d, eAct) ==
    SingleAxisBit(c, F, d, eAct, g_SAClkSrcPropertyName, BIT7, g_SAClkSrc_0, g_SAClkSrc_1)

SingleAxisClockPolarity(c, F, d, eAct) ==
    SingleAxisBit(c, F, d, eAct, g_SAClkPolPropertyName, BIT6, g_SAClkPol_0, g_SAClkPol_1)

SingleAxisTTLOutput(c, F, d, eAct) ==
    SingleAxisBit(c, F, d, eAct, g_SATTLOutPropertyName, BIT5, g_SATTLOut_0, g_SATTLOut_1)

SingleAxisTTLPolarity(c, F, d, eAct) ==
    SingleAxisBit(c, F, d, eAct, g_SATTLPolPropertyName, BIT4, g_SATTLPol_0, g_SATTLPol_1)

\* no refresh-avoidance check: "get every single time"
SingleAxisPatternByte(c, F, d, eAct) ==
    LET ax == c.devs[d].axisLetter
    IN  IF eAct = BeforeGet
        THEN Let(QueryAndParse(c, F, Query("SAP", ax)), LAMBDA c2 :
                 IF c2.ret # DEVICE_OK THEN c2
                 ELSE PropSet(c2, d, g_SAPatternModePropertyName, c2.ans.val))
        ELSE QueryCommandVerify(c, F, Write("SAP", ax, PropGet(c, d, g_SAPatternModePropertyName)))

-----------------------------------------------------------------------------
(* MixinSingleAxis: property creation *)

\* CreateXProperty; AddAllowedValue..; UpdateProperty(name), result dropped
CreateAndUpdate(c, F, d, prop, v) == UpdateProperty(CreateProperty(c, d, prop, v), F, d, prop)

\* Advanced properties: AfterSet creates the five advanced properties,
\* whatever the value set
SingleAxisAdvanced(c, F, d, eAct) ==
    IF eAct = BeforeGet THEN Ret(c, DEVICE_OK)
    ELSE LET c1 == CreateAndUpdate(c, F, d, g_SAClkSrcPropertyName, g_SAClkSrc_0)
             c2 == CreateAndUpdate(c1, F, d, g_SAClkPolPropertyName, g_SAClkPol_0)
             c3 == CreateAndUpdate(c2, F, d, g_SATTLOutPropertyName, g_SATTLOut_0)
             c4 == CreateAndUpdate(c3, F, d, g_SATTLPolPropertyName, g_SATTLPol_0)
             c5 == CreateAndUpdate(c4, F, d, g_SAPatternModePropertyName, 0)
         IN  Ret(c5, DEVICE_OK)

\* the steps of property creation, in the order of the code: the property
\* created with its value, and the property UpdateProperty is called with
\* ("" when it is not called)
Created(prop, v) == [create |-> prop, val |-> v, update |-> ""]
CreatedAndUpdated(prop, v) == [create |-> prop, val |-> v, update |-> prop]

MixinCreateSingleAxisProperties ==
    <<CreatedAndUpdated(g_SAAmplitudePropertyName, 0),
      CreatedAndUpdated(g_SAOffsetPropertyName, 0),
      CreatedAndUpdated(g_SAPeriodPropertyName, 0),
      CreatedAndUpdated(g_SAModePropertyName, g_SAMode_0),
      CreatedAndUpdated(g_SAPatternPropertyName, g_SAPattern_0),
      CreatedAndUpdated(g_AdvancedSAPropertiesPropertyName, g_NoState)>>

-----------------------------------------------------------------------------
(* MixinRingBuffer: handlers *)

\* the pseudo-axis that names the ring-buffer mode in "<addr>RM <letter>?" and
\* "<addr>RM <letter>=<mode>"
pseudoAxisChar_AlwaysF(dv) == "F"

pseudoAxisChar(dv) == IF FirmwareVersionAtLeast(dv, 289) THEN "F" ELSE "X"

\* the command word with its pseudo-axis: "RMF" or "RMX"
RM(dv) == "RM" \o pseudoAxisChar(dv)

RBModeOfCode(tmp) ==
    CASE tmp = 1 -> g_RB_OnePoint_1
      [] tmp = 2 -> g_RB_PlayOnce_2
      [] tmp = 3 -> g_RB_PlayRepeat_3
      [] OTHER -> ""

RBModeToCode(tmpstr) ==
    CASE tmpstr = g_RB_OnePoint_1 -> 1
      [] tmpstr = g_RB_PlayOnce_2 -> 2
      [] tmpstr = g_RB_PlayRepeat_3 -> 3
      [] OTHER -> -1

\* remove the "running now" code if present
RBStripRunning(tmp) == IF tmp >= 128 THEN tmp - 128 ELSE tmp

RingBufferMode_NoPropagation(c, F, d, eAct) ==
    LET addr == c.devs[d].addr
    IN  IF eAct = BeforeGet
        THEN IF SkipRefresh(c, d) THEN Ret(c, DEVICE_OK)
             ELSE Let(QueryAndParse(c, F, Query(RM(c.devs[d]), addr)), LAMBDA c2 :
                  LET tmp == RBStripRunning(c2.ans.val)
                  IN  IF c2.ret # DEVICE_OK THEN c2
                      ELSE IF RBModeOfCode(tmp) = ""
                           THEN Ret(c2, DEVICE_INVALID_PROPERTY_VALUE)
                           ELSE PropSet(c2, d, g_RB_ModePropertyName, RBModeOfCode(tmp)))
        ELSE IF UpdatingSharedProperties(c) THEN Ret(c, DEVICE_OK)
        ELSE LET tmp == RBModeToCode(PropGet(c, d, g_RB_ModePropertyName))
             IN  IF tmp = -1 THEN Ret(c, DEVICE_INVALID_PROPERTY_VALUE)
                 ELSE QueryCommandVerify(c, F, Write(RM(c.devs[d]), addr, tmp))

RingBufferMode(c, F, d, eAct) ==
    LET addr == c.devs[d].addr
    IN  IF eAct = BeforeGet
        THEN IF SkipRefresh(c, d) THEN Ret(c, DEVICE_OK)
             ELSE Let(QueryAndParse(c, F, Query(RM(c.devs[d]), addr)), LAMBDA c2 :
                  LET tmp == RBStripRunning(c2.ans.val)
                  IN  IF c2.ret # DEVICE_OK THEN c2
                      ELSE IF RBModeOfCode(tmp) = ""
                           THEN Ret(c2, DEVICE_INVALID_PROPERTY_VALUE)
                           ELSE PropSet(c2, d, g_RB_ModePropertyName, RBModeOfCode(tmp)))
        ELSE IF UpdatingSharedProperties(c) THEN Ret(c, DEVICE_OK)
        ELSE LET tmpstr == PropGet(c, d, g_RB_ModePropertyName)
                 tmp == RBModeToCode(tmpstr)
             IN  IF tmp = -1 THEN Ret(c, DEVICE_INVALID_PROPERTY_VALUE)
                 ELSE Let(QueryCommandVerify(c, F, Write(RM(c.devs[d]), addr, tmp)), LAMBDA c1 :
                          IF c1.ret # DEVICE_OK THEN c1
                          ELSE UpdateSharedProperties(c1, F, d, g_RB_ModePropertyName, tmpstr))

\* pProp is the property the handler is bound to
RingBufferDelay(c, F, d, eAct, pProp) ==
    LET addr == c.devs[d].addr
    IN  IF eAct = BeforeGet
        THEN IF SkipRefresh(c, d) THEN Ret(c, DEVICE_OK)
             ELSE Let(QueryAndParse(c, F, Query("RT", addr)), LAMBDA c2 :
                      IF c2.ret # DEVICE_OK THEN c2
                      ELSE PropSet(c2, d, pProp, c2.ans.val))
        ELSE IF UpdatingSharedProperties(c) THEN Ret(c, DEVICE_OK)
        ELSE LET tmp == PropGet(c, d, pProp)
             IN  Let(QueryCommandVerify(c, F, Write("RT", addr, tmp)), LAMBDA c1 :
                 IF c1.ret # DEVICE_OK THEN c1
                 ELSE UpdateSharedProperties(c1, F, d, pProp, tmp))

RingBufferTrigger(c, F, d, eAct) ==
    IF eAct = BeforeGet THEN PropSet(c, d, g_RB_TriggerPropertyName, g_IdleState)
    ELSE IF UpdatingSharedProperties(c) THEN Ret(c, DEVICE_OK)
    ELSE IF PropGet(c, d, g_RB_TriggerPropertyName) = g_DoItState
         THEN Let(QueryCommandVerify(c, F, Write("RMGO", c.devs[d].addr, 0)), LAMBDA c1 :
                  IF c1.ret # DEVICE_OK THEN c1
                  ELSE PropSet(c1, d, g_RB_TriggerPropertyName, g_DoneState))
         ELSE Ret(c, DEVICE_OK)

RingBufferAutoplayRunning(c, F, d, eAct) ==
    IF eAct = BeforeGet
    THEN IF SkipRefresh(c, d) /\ ~c.st.RBRunning_justSet THEN Ret(c, DEVICE_OK)
         ELSE Let(QueryAndParse(c, F, Query(RM(c.devs[d]), c.devs[d].addr)), LAMBDA c2 :
                  IF c2.ret # DEVICE_OK THEN c2
                  ELSE [PropSet(c2, d, g_RB_AutoplayRunningPropertyName,
                                IF c2.ans.val >= 128 THEN g_YesState ELSE g_NoState)
                           EXCEPT !.st.RBRunning_justSet = FALSE])
    ELSE [c EXCEPT !.st.RBRunning_justSet = TRUE, !.ret = DEVICE_OK]

\* the delay property is created under the name of the mode property, which
\* exists already: nothing is created, the delay handler is bound to no
\* property, and the update of the delay property finds none
MixinCreateRingBufferProperties ==
    <<CreatedAndUpdated(g_RB_ModePropertyName, g_RB_OnePoint_1),
      [create |-> g_RB_ModePropertyName, val |-> 0, update |-> g_RB_DelayPropertyName],
      CreatedAndUpdated(g_RB_TriggerPropertyName, g_IdleState),
      CreatedAndUpdated(g_RB_AutoplayRunningPropertyName, g_NoState)>>

-----------------------------------------------------------------------------
(* CXYStage: handlers *)

OnRBMode_NoGuard(c, F, d, eAct) ==
    LET addr == c.devs[d].addr
    IN  IF eAct = BeforeGet
        THEN IF SkipRefresh(c, d) THEN Ret(c, DEVICE_OK)
             ELSE Let(QueryAndParse(c, F, Query(RM(c.devs[d]), addr)), LAMBDA c2 :
                  LET tmp == RBStripRunning(c2.ans.val)
                  IN  IF c2.ret # DEVICE_OK THEN c2
                      ELSE IF RBModeOfCode(tmp) = ""
                           THEN Ret(c2, DEVICE_INVALID_PROPERTY_VALUE)
                           ELSE PropSet(c2, d, g_RB_ModePropertyName, RBModeOfCode(tmp)))
        ELSE LET tmpstr == PropGet(c, d, g_RB_ModePropertyName)
                 tmp == RBModeToCode(tmpstr)
             IN  IF tmp = -1 THEN Ret(c, DEVICE_INVALID_PROPERTY_VALUE)
                 ELSE Let(QueryCommandVerify(c, F, Write(RM(c.devs[d]), addr, tmp)), LAMBDA c1 :
                          IF c1.ret # DEVICE_OK THEN c1
                          ELSE UpdateSharedProperties(c1, F, d, g_RB_ModePropertyName, tmpstr))

OnRBMode(c, F, d, eAct) ==
    LET addr == c.devs[d].addr
    IN  IF eAct = BeforeGet
        THEN IF SkipRefresh(c, d) THEN Ret(c, DEVICE_OK)
             ELSE Let(QueryAndParse(c, F, Query(RM(c.devs[d]), addr)), LAMBDA c2 :
                  LET tmp == RBStripRunning(c2.ans.val)
                  IN  IF c2.ret # DEVICE_OK THEN c2
                      ELSE IF RBModeOfCode(tmp) = ""
                           THEN Ret(c2, DEVICE_INVALID_PROPERTY_VALUE)
                           ELSE PropSet(c2, d, g_RB_ModePropertyName, RBModeOfCode(tmp)))
        ELSE IF UpdatingSharedProperties(c) THEN Ret(c, DEVICE_OK)
        ELSE LET tmpstr == PropGet(c, d, g_RB_ModePropertyName)
                 tmp == RBModeToCode(tmpstr)
             IN  IF tmp = -1 THEN Ret(c, DEVICE_INVALID_PROPERTY_VALUE)
                 ELSE Let(QueryCommandVerify(c, F, Write(RM(c.devs[d]), addr, tmp)), LAMBDA c1 :
                          IF c1.ret # DEVICE_OK THEN c1
                          ELSE UpdateSharedProperties(c1, F, d, g_RB_ModePropertyName, tmpstr))

OnRBTrigger(c, F, d, eAct) ==
    IF eAct = BeforeGet THEN PropSet(c, d, g_RB_TriggerPropertyName, g_IdleState)
    ELSE IF UpdatingSharedProperties(c) THEN Ret(c, DEVICE_OK)
    ELSE IF PropGet(c, d, g_RB_TriggerPropertyName) = g_DoItState
         THEN Let(QueryCommandVerify(c, F, Write("RMGO", c.devs[d].addr, 0)), LAMBDA c1 :
                  IF c1.ret # DEVICE_OK THEN c1
                  ELSE UpdateSharedProperties(
                          PropSet(c1, d, g_RB_TriggerPropertyName, g_DoneState),
                          F, d, g_RB_TriggerPropertyName, g_DoneState))
         ELSE Ret(c, DEVICE_OK)

RECURSIVE OnRBRunning(_, _, _, _)
OnRBRunning(c, F, d, eAct) ==
    IF eAct = BeforeGet
    THEN IF SkipRefresh(c, d) /\ ~c.st.OnRBRunning_justSet THEN Ret(c, DEVICE_OK)
         ELSE Let(QueryAndParse(c, F, Query(RM(c.devs[d]), c.devs[d].addr)), LAMBDA c2 :
                  IF c2.ret # DEVICE_OK THEN c2
                  ELSE [PropSet(c2, d, g_RB_AutoplayRunningPropertyName,
                                IF c2.ans.val >= 128 THEN g_YesState ELSE g_NoState)
                           EXCEPT !.st.OnRBRunning_justSet = FALSE])
    ELSE OnRBRunning([c EXCEPT !.st.OnRBRunning_justSet = TRUE], F, d, BeforeGet)

OnRBDelayBetweenPoints(c, F, d, eAct) ==
    LET addr == c.devs[d].addr
    IN  IF eAct = BeforeGet
        THEN IF SkipRefresh(c, d) THEN Ret(c, DEVICE_OK)
             ELSE Let(QueryAndParse(c, F, Query("RT", addr)), LAMBDA c2 :
                      IF c2.ret # DEVICE_OK THEN c2
                      ELSE PropSet(c2, d, g_RB_DelayPropertyName, c2.ans.val))
        ELSE IF UpdatingSharedProperties(c) THEN Ret(c, DEVICE_OK)
        ELSE LET tmp == PropGet(c, d, g_RB_DelayPropertyName)
             IN  Let(QueryCommandVerify(c, F, Write("RT", addr, tmp)), LAMBDA c1 :
                 IF c1.ret # DEVICE_OK THEN c1
                 ELSE UpdateSharedProperties(c1, F, d, g_RB_DelayPropertyName, tmp))

\* one axis of OnSaveJoystickSettings: J <axis>?, then J <axis>=<tmp+100>
SaveJoystickAxis(c, F, ax) ==
    Let(QueryAndParse(c, F, Query("J", ax)), LAMBDA c2 :
        IF c2.ret # DEVICE_OK THEN c2
        ELSE QueryCommandVerify(c2, F, Write("J", ax, c2.ans.val + 100)))

OnSaveJoystickSettings(c, F, d) ==
    Let(SaveJoystickAxis(c, F, c.devs[d].axisLetterX), LAMBDA c1 :
        IF c1.ret # DEVICE_OK THEN c1 ELSE SaveJoystickAxis(c1, F, c.devs[d].axisLetterY))

\* the letter OnSaveCardSettings sends after "SS "
XYSaveLetter(tmpstr) ==
    CASE tmpstr = g_SaveSettingsX -> "X"
      [] tmpstr = g_SaveSettingsY -> "X"
      [] tmpstr = g_SaveSettingsZ -> "Z"
      [] tmpstr = g_SaveSettingsZJoystick -> "Z"
      [] OTHER -> ""

OnSaveCardSettingsXY(c, F, d, eAct) ==
    IF eAct # AfterSet THEN Ret(c, DEVICE_OK)
    ELSE LET tmpstr == PropGet(c, d, g_SaveSettingsPropertyName)
         IN  IF tmpstr \in {g_SaveSettingsOrig, g_SaveSettingsDone} THEN Ret(c, DEVICE_OK)
             ELSE Let(IF tmpstr = g_SaveSettingsZJoystick
                            THEN OnSaveJoystickSettings(c, F, d) ELSE Ret(c, DEVICE_OK), LAMBDA c1 :
                  Let(QueryCommandVerify(c1, F, Delayed(Write("SS " \o XYSaveLetter(tmpstr), c.devs[d].addr, 0), 200)), LAMBDA c2 :
                      IF c1.ret # DEVICE_OK THEN c1
                      ELSE IF c2.ret # DEVICE_OK THEN c2
                      ELSE UpdateSharedProperties(
                              PropSet(c2, d, g_SaveSettingsPropertyName, g_SaveSettingsDone),
                              F, d, g_SaveSettingsPropertyName, g_SaveSettingsDone)))

\* the set names both axes with one value; the register of X is kept
OnAAlign(c, F, d, eAct) ==
    IF eAct = BeforeGet
    THEN IF SkipRefresh(c, d) THEN Ret(c, DEVICE_OK)
         ELSE Let(QueryAndParse(c, F, Query("AA", c.devs[d].axisLetterX)), LAMBDA c2 :
                  IF c2.ret # DEVICE_OK THEN c2
                  ELSE PropSet(c2, d, g_AAlignPropertyName, c2.ans.val))
    ELSE QueryCommandVerify(c, F, Write("AA", c.devs[d].axisLetterX, PropGet(c, d, g_AAlignPropertyName)))

\* hub_->SplitAnswerOnCR(): the lines of the last-answer buffer; it cannot
\* fail and is no wire step
SplitAnswerOnCR(c) ==
    [c EXCEPT !.ev = Append(@, Ev("parse", [NoCmd EXCEPT !.v = c.ans.val], TRUE, c, "", ""))]

\* the answer to "AZ <axis>" carries the result in its last line
OnAZeroX(c, F, d, eAct) ==
    IF eAct = BeforeGet THEN Ret(c, DEVICE_OK)
    ELSE Let(QueryCommandVerify(c, F, Query("AZ", c.devs[d].axisLetterX)), LAMBDA c1 :
         Let(SplitAnswerOnCR(c1), LAMBDA c2 :
             IF c1.ret # DEVICE_OK THEN c1
             ELSE PropSet(c2, d, g_AZeroXPropertyName, c2.ans.val)))

\* the advanced properties are created once; initialized_ is lowered while
\* they take their first values
OnAdvancedPropertiesXY(c, F, d, eAct) ==
    IF eAct = BeforeGet THEN Ret(c, DEVICE_OK)
    ELSE IF PropGet(c, d, g_AdvancedPropertiesPropertyName) = g_YesState
            /\ ~c.devs[d].advancedPropsEnabled
         THEN LET c0 == [c EXCEPT !.devs[d].advancedPropsEnabled = TRUE,
                                  !.devs[d].initialized = FALSE]
                  c1 == UpdateProperty(CreateProperty(c0, d, g_AAlignPropertyName, 0),
                                       F, d, g_AAlignPropertyName)
                  c2 == CreateProperty(c1, d, g_AZeroXPropertyName, 0)
              IN  [c2 EXCEPT !.devs[d].initialized = TRUE, !.ret = DEVICE_OK]
         ELSE Ret(c, DEVICE_OK)

-----------------------------------------------------------------------------
(* MixinInput: handlers *)

JSCodeOf_Swapped(tmp) ==
    CASE tmp = 0 -> g_JSCode_0
      [] tmp = 1 -> g_JSCode_1
      [] tmp = 2 -> g_JSCode_3
      [] tmp = 3 -> g_JSCode_2
      [] tmp = 22 -> g_JSCode_22
      [] tmp = 23 -> g_JSCode_23
      [] OTHER -> ""

JSCodeOf(tmp) ==
    CASE tmp = 0 -> g_JSCode_0
      [] tmp = 1 -> g_JSCode_1
      [] tmp = 2 -> g_JSCode_2
      [] tmp = 3 -> g_JSCode_3
      [] tmp = 22 -> g_JSCode_22
      [] tmp = 23 -> g_JSCode_23
      [] OTHER -> ""

JSCodeTo(tmpstr) ==
    CASE tmpstr = g_JSCode_0 -> 0
      [] tmpstr = g_JSCode_1 -> 1
      [] tmpstr = g_JSCode_2 -> 2
      [] tmpstr = g_JSCode_3 -> 3
      [] tmpstr = g_JSCode_22 -> 22
      [] tmpstr = g_JSCode_23 -> 23
      [] OTHER -> -1

\* an unsupported code is not complained about: the value is left as it is
JoystickInput(c, F, d, eAct) ==
    LET ax == c.devs[d].axisLetter
    IN  IF eAct = BeforeGet
        THEN IF SkipRefresh(c, d) THEN Ret(c, DEVICE_OK)
             ELSE Let(QueryAndParse(c, F, Query("J", ax)), LAMBDA c2 :
                      IF c2.ret # DEVICE_OK THEN c2
                      ELSE IF JSCodeOf(c2.ans.val) = "" THEN Ret(c2, DEVICE_OK)
                      ELSE PropSet(c2, d, g_JoystickSelectPropertyName, JSCodeOf(c2.ans.val)))
        ELSE LET tmp == JSCodeTo(PropGet(c, d, g_JoystickSelectPropertyName))
             IN  IF tmp = -1 THEN Ret(c, DEVICE_INVALID_PROPERTY_VALUE)
                 ELSE QueryCommandVerify(c, F, Write("J", ax, tmp))

Abs(x) == IF x < 0 THEN -x ELSE x

\* the speed handlers share one shape: the register (JS X, Y, F or T), the
\* mirror property consulted on a set, and whether a read takes std::abs
InputSpeed(c, F, d, eAct, prop, reg, mirror, useAbs) ==
    LET addr == c.devs[d].addr
    IN  IF eAct = BeforeGet
        THEN IF SkipRefresh(c, d) THEN Ret(c, DEVICE_OK)
             ELSE Let(QueryAndParse(c, F, Query(reg, addr)), LAMBDA c2 :
                      IF c2.ret # DEVICE_OK THEN c2
                      ELSE PropSetChecked(c2, d, prop,
                                          IF useAbs THEN Abs(c2.ans.val) ELSE c2.ans.val))
        ELSE LET tmp == PropGet(c, d, prop)
                 c1 == GetProperty(c, F, d, mirror)
             IN  IF c1.ret # DEVICE_OK THEN c1
                 ELSE QueryCommandVerify(c1, F,
                         Write(reg, addr, IF PropGet(c1, d, mirror) = g_YesState THEN -tmp ELSE tmp))

JoystickFastSpeed(c, F, d, eAct) ==
    InputSpeed(c, F, d, eAct, g_JoystickFastSpeedPropertyName, "JSX", g_JoystickMirrorPropertyName, TRUE)

JoystickSlowSpeed(c, F, d, eAct) ==
    InputSpeed(c, F, d, eAct, g_JoystickSlowSpeedPropertyName, "JSY", g_JoystickMirrorPropertyName, FALSE)

WheelFastSpeed(c, F, d, eAct) ==
    InputSpeed(c, F, d, eAct, g_WheelFastSpeedPropertyName, "JSF", g_WheelMirrorPropertyName, TRUE)

WheelSlowSpeed(c, F, d, eAct) ==
    InputSpeed(c, F, d, eAct, g_WheelSlowSpeedPropertyName, "JST", g_WheelMirrorPropertyName, TRUE)

\* the mirror handlers share one shape: the register queried, the two-value
\* command written, and the fast and slow speed properties it reads
InputMirror(c, F, d, eAct, prop, reg, reg2, fast, slow) ==
    LET addr == c.devs[d].addr
    IN  IF eAct = BeforeGet
        THEN IF SkipRefresh(c, d) THEN Ret(c, DEVICE_OK)
             ELSE Let(QueryAndParse(c, F, Query(reg, addr)), LAMBDA c2 :
                      IF c2.ret # DEVICE_OK THEN c2
                      ELSE PropSet(c2, d, prop, IF c2.ans.val < 0 THEN g_YesState ELSE g_NoState))
        ELSE LET c1 == GetProperty(c, F, d, fast)
                 c2 == GetProperty(c1, F, d, slow)
                 vf == PropGet(c2, d, fast)
                 vs == PropGet(c2, d, slow)
             IN  IF c1.ret # DEVICE_OK THEN c1
                 ELSE IF c2.ret # DEVICE_OK THEN c2
                 ELSE IF PropGet(c, d, prop) = g_YesState
                      THEN QueryCommandVerify(c2, F, Write2(reg2, addr, -vf, -vs))
                      ELSE QueryCommandVerify(c2, F, Write2(reg2, addr, vf, vs))

JoystickReverse(c, F, d, eAct) ==
    InputMirror(c, F, d, eAct, g_JoystickMirrorPropertyName, "JSX", "JSXY",
                g_JoystickFastSpeedPropertyName, g_JoystickSlowSpeedPropertyName)

WheelReverse(c, F, d, eAct) ==
    InputMirror(c, F, d, eAct, g_WheelMirrorPropertyName, "JSF", "JSFT",
                g_WheelFastSpeedPropertyName, g_WheelSlowSpeedPropertyName)

\* the single-axis case of MixinCreateInputProperties
MixinCreateInputProperties(dv) ==
    <<CreatedAndUpdated(g_JoystickFastSpeedPropertyName, 100),
      CreatedAndUpdated(g_JoystickSlowSpeedPropertyName, 10),
      CreatedAndUpdated(g_JoystickMirrorPropertyName, g_NoState),
      CreatedAndUpdated(g_JoystickSelectPropertyName, g_JSCode_0)>>
    \o (IF FirmwareVersionAtLeast(dv, 314)
        THEN <<CreatedAndUpdated(g_WheelFastSpeedPropertyName, 10),
               CreatedAndUpdated(g_WheelSlowSpeedPropertyName, 5),
               CreatedAndUpdated(g_WheelMirrorPropertyName, g_NoState)>>
        ELSE <<>>)

-----------------------------------------------------------------------------
(* CXYStage: the joystick and wheel handlers *)

OnJoystickFastSpeed(c, F, d, eAct) ==
    InputSpeed(c, F, d, eAct, g_JoystickFastSpeedPropertyName, "JSX", g_JoystickMirrorPropertyName, TRUE)

OnJoystickSlowSpeed(c, F, d, eAct) ==
    InputSpeed(c, F, d, eAct, g_JoystickSlowSpeedPropertyName, "JSY", g_JoystickMirrorPropertyName, FALSE)

OnJoystickMirror(c, F, d, eAct) ==
    InputMirror(c, F, d, eAct, g_JoystickMirrorPropertyName, "JSX", "JSXY",
                g_JoystickFastSpeedPropertyName, g_JoystickSlowSpeedPropertyName)

OnWheelFastSpeed(c, F, d, eAct) ==
    InputSpeed(c, F, d, eAct, g_WheelFastSpeedPropertyName, "JSF", g_WheelMirrorPropertyName, TRUE)

\* the set consults the joystick mirror, not the wheel mirror
OnWheelSlowSpeed(c, F, d, eAct) ==
    InputSpeed(c, F, d, eAct, g_WheelSlowSpeedPropertyName, "JST", g_JoystickMirrorPropertyName, TRUE)

OnWheelMirror(c, F, d, eAct) ==
    InputMirror(c, F, d, eAct, g_WheelMirrorPropertyName, "JSF", "JSFT",
                g_WheelFastSpeedPropertyName, g_WheelSlowSpeedPropertyName)

\* "J <X>=<v> <Y>=<v2>": one command that names both axes of the stage
JoystickCommand(dv, v, v2) == Write2("J" \o dv.axisLetterX \o dv.axisLetterY, "", v, v2)

\* the command of a set of JoystickEnabled or JoystickRotate
\* a selection that ignores whether the joystick is enabled
JoystickSelect_IgnoreEnabled(dv, enabled, rotated) ==
    IF rotated = g_YesState THEN JoystickCommand(dv, 3, 2) ELSE JoystickCommand(dv, 2, 3)

JoystickSelect(dv, enabled, rotated) ==
    IF enabled = g_YesState
    THEN IF rotated = g_YesState THEN JoystickCommand(dv, 3, 2) ELSE JoystickCommand(dv, 2, 3)
    ELSE JoystickCommand(dv, 0, 0)

OnJoystickRotate(c, F, d, eAct) ==
    IF eAct = BeforeGet
    THEN IF SkipRefresh(c, d) THEN Ret(c, DEVICE_OK)
         ELSE Let(QueryAndParse(c, F, Query("J", c.devs[d].axisLetterX)), LAMBDA c2 :
                  IF c2.ret # DEVICE_OK THEN c2
                  ELSE PropSet(c2, d, g_JoystickRotatePropertyName,
                               IF c2.ans.val = 3 THEN g_YesState ELSE g_NoState))
    ELSE LET tmpstr == PropGet(c, d, g_JoystickRotatePropertyName)
         IN  Let(GetProperty(c, F, d, g_JoystickEnabledPropertyName), LAMBDA c1 :
                 IF c1.ret # DEVICE_OK THEN c1
                 ELSE QueryCommandVerify(c1, F,
                         JoystickSelect(c.devs[d],
                                        PropGet(c1, d, g_JoystickEnabledPropertyName), tmpstr)))

\* the rotate property is read only when the joystick is being enabled
OnJoystickEnableDisable(c, F, d, eAct) ==
    IF eAct = BeforeGet
    THEN IF SkipRefresh(c, d) THEN Ret(c, DEVICE_OK)
         ELSE Let(QueryAndParse(c, F, Query("J", c.devs[d].axisLetterX)), LAMBDA c2 :
                  IF c2.ret # DEVICE_OK THEN c2
                  ELSE PropSet(c2, d, g_JoystickEnabledPropertyName,
                               IF c2.ans.val # 0 THEN g_YesState ELSE g_NoState))
    ELSE LET tmpstr == PropGet(c, d, g_JoystickEnabledPropertyName)
         IN  IF tmpstr = g_YesState
             THEN Let(GetProperty(c, F, d, g_JoystickRotatePropertyName), LAMBDA c1 :
                      IF c1.ret # DEVICE_OK THEN c1
                      ELSE QueryCommandVerify(c1, F,
                              JoystickSelect(c.devs[d], tmpstr,
                                             PropGet(c1, d, g_JoystickRotatePropertyName))))
             ELSE QueryCommandVerify(c, F, JoystickSelect(c.devs[d], tmpstr, g_NoState))

-----------------------------------------------------------------------------
(* CXYStage: the speed, backlash, error and vector handlers *)

\* hub_->IsDefinePresent(build, define), on the build the card reported
IsDefinePresent(build, define) == define \in build

\* one rule for both firmware eras
SpeedTruthOf_Unified(dv, build) == ~IsDefinePresent(build, "SPEED UNTRUTH")

\* speedTruth_: whether the controller reports the speed it really uses
SpeedTruthOf(dv, build) ==
    IF FirmwareVersionAtLeast(dv, 327)
    THEN ~IsDefinePresent(build, "SPEED UNTRUTH")
    ELSE IsDefinePresent(build, "SPEED TRUTH")

-----------------------------------------------------------------------------
(* CXYStage: sequencing by TTL trigger *)

\* the text of the build's define that starts with "RING BUFFER", empty
\* where the build has none
GetDefineString(h, addr) == h.rbDefine[addr]

\* atol(rb_define.substr(11)) of the texts a build can carry
AtolAfter11(rb_define) ==
    CASE rb_define = "RING BUFFER 50" -> 50
      [] rb_define = "RING BUFFER 250" -> 250
      [] OTHER -> 0

\* the number of ring-buffer positions: read only from a text of more than
\* 12 characters
RingBufferCapacityOf(rb_define) ==
    IF Len(rb_define) > 12 THEN AtolAfter11(rb_define) ELSE 0

\* ttl_trigger_supported_ as Initialize decides it
TTLSupported(dv, h, supported) ==
    FirmwareVersionAtLeast(dv, 309) /\ IsDefinePresent(h.build[dv.addr], "IN0_INT")
    /\ supported

\* the part of CXYStage::Initialize that decides what the card supports
InitializeSequencing(dv, h) ==
    LET hasRB == FirmwareVersionAtLeast(dv, 281) /\ BitAnd(h.vAxesProps[dv.addr], BIT1) # 0
        capacity == IF hasRB THEN RingBufferCapacityOf(GetDefineString(h, dv.addr))
                    ELSE dv.ring_buffer_capacity
        supported == dv.ring_buffer_supported \/ (hasRB /\ capacity # 0)
    IN  [dv EXCEPT !.ring_buffer_capacity = capacity,
                   !.ring_buffer_supported = supported,
                   !.ttl_trigger_enabled = IF hasRB /\ capacity # 0 THEN FALSE ELSE @,
                   !.ttl_trigger_supported = @ \/ TTLSupported(dv, h, supported)]

OnUseSequence_Unchecked(c, F, d, eAct) ==
    IF eAct = BeforeGet
    THEN PropSet(c, d, g_UseSequencePropertyName,
                 IF c.devs[d].ttl_trigger_enabled THEN g_YesState ELSE g_NoState)
    ELSE LET tmpstr == PropGet(c, d, g_UseSequencePropertyName)
             c1 == [c EXCEPT !.devs[d].ttl_trigger_enabled = (tmpstr = g_YesState)]
         IN  PropSet(c1, d, g_UseSequencePropertyName,
                     IF c1.devs[d].ttl_trigger_enabled THEN g_YesState ELSE g_NoState)

\* the set ends with the read branch, which puts the property at what
\* ttl_trigger_enabled_ became
OnUseSequence(c, F, d, eAct) ==
    IF eAct = BeforeGet
    THEN PropSet(c, d, g_UseSequencePropertyName,
                 IF c.devs[d].ttl_trigger_enabled THEN g_YesState ELSE g_NoState)
    ELSE LET tmpstr == PropGet(c, d, g_UseSequencePropertyName)
             c1 == [c EXCEPT !.devs[d].ttl_trigger_enabled =
                                 c.devs[d].ttl_trigger_supported /\ (tmpstr = g_YesState)]
         IN  PropSet(c1, d, g_UseSequencePropertyName,
                     IF c1.devs[d].ttl_trigger_enabled THEN g_YesState ELSE g_NoState)

IsStageSequenceable(dv) == dv.ttl_trigger_enabled

GetStageSequenceMaxLength(dv) == dv.ring_buffer_capacity

StopXYStageSequence(c, F, d) ==
    IF ~c.devs[d].ttl_trigger_supported THEN Ret(c, DEVICE_UNSUPPORTED_COMMAND)
    ELSE QueryCommandVerify(c, F, Write("TTLX", c.devs[d].addr, 0))

StartXYStageSequence(c, F, d) ==
    IF ~c.devs[d].ttl_trigger_supported THEN Ret(c, DEVICE_UNSUPPORTED_COMMAND)
    ELSE Let(QueryCommandVerify(c, F, Write("RMZ", c.devs[d].addr, 0)), LAMBDA c1 :
         IF c1.ret # DEVICE_OK THEN c1
         ELSE QueryCommandVerify(c1, F, Write("TTLX", c.devs[d].addr, 1)))

\* the points are sent one by one; the first command that fails ends it
RECURSIVE SendPoints(_, _, _, _)
SendPoints(c, F, d, i) ==
    LET dv == c.devs[d]
    IN  IF i > Len(dv.sequenceX) THEN Ret(c, DEVICE_OK)
        ELSE Let(QueryCommandVerify(c, F,
                     Write2("LD" \o dv.axisLetterX \o dv.axisLetterY, "",
                            dv.sequenceX[i] * dv.unitMultX, dv.sequenceY[i] * dv.unitMultY)),
                 LAMBDA c1 :
                 IF c1.ret # DEVICE_OK THEN c1 ELSE SendPoints(c1, F, d, i + 1))

SendXYStageSequence(c, F, d) ==
    IF ~c.devs[d].ttl_trigger_supported THEN Ret(c, DEVICE_UNSUPPORTED_COMMAND)
    ELSE Let(QueryCommandVerify(c, F, Write("RMX", c.devs[d].addr, 0)), LAMBDA c1 :
         IF c1.ret # DEVICE_OK THEN c1 ELSE SendPoints(c1, F, d, 1))

\* the stored points are dropped before the command is sent
ClearXYStageSequence(c, F, d) ==
    IF ~c.devs[d].ttl_trigger_supported THEN Ret(c, DEVICE_UNSUPPORTED_COMMAND)
    ELSE QueryCommandVerify([c EXCEPT !.devs[d].sequenceX = <<>>, !.devs[d].sequenceY = <<>>],
                            F, Write("RMX", c.devs[d].addr, 0))

AddToXYStageSequence_Unchecked(c, F, d, positionX, positionY) ==
    Ret([c EXCEPT !.devs[d].sequenceX = Append(@, positionX),
                  !.devs[d].sequenceY = Append(@, positionY)], DEVICE_OK)

AddToXYStageSequence(c, F, d, positionX, positionY) ==
    IF ~c.devs[d].ttl_trigger_supported THEN Ret(c, DEVICE_UNSUPPORTED_COMMAND)
    ELSE Ret([c EXCEPT !.devs[d].sequenceX = Append(@, positionX),
                       !.devs[d].sequenceY = Append(@, positionY)], DEVICE_OK)

\* the read-only speed in micrometres per second follows lastSpeedX_ * 1000
OnSpeedXMicronsPerSec(c, F, d, eAct) ==
    PropSet(c, d, g_MotorSpeedXMicronsPerSecPropertyName, c.devs[d].lastSpeedX * 1000)

OnSpeedYMicronsPerSec(c, F, d, eAct) ==
    PropSet(c, d, g_MotorSpeedYMicronsPerSecPropertyName, c.devs[d].lastSpeedY * 1000)

\* a version that forgets the speed
SetLastSpeed_Forget(c, F, d, axisLetter, tmp) == Ret(c, DEVICE_OK)

\* lastSpeedX_ = tmp (or lastSpeedY_), then the read-only property is set to
\* a dummy value so that its handler copies the member
SetLastSpeed(c, F, d, axisLetter, tmp) ==
    IF axisLetter = c.devs[d].axisLetterX
    THEN SetProperty([c EXCEPT !.devs[d].lastSpeedX = tmp], F, d,
                     g_MotorSpeedXMicronsPerSecPropertyName, 1000000)
    ELSE SetProperty([c EXCEPT !.devs[d].lastSpeedY = tmp], F, d,
                     g_MotorSpeedYMicronsPerSecPropertyName, 1000000)

RECURSIVE OnSpeedGeneric(_, _, _, _, _, _)
OnSpeedGeneric(c, F, d, eAct, axisLetter, prop) ==
    IF eAct = BeforeGet
    THEN IF SkipRefresh(c, d) /\ ~c.devs[d].refreshOverride THEN Ret(c, DEVICE_OK)
         ELSE Let(QueryAndParse([c EXCEPT !.devs[d].refreshOverride = FALSE], F,
                                Query("S", axisLetter)), LAMBDA c2 :
                  IF c2.ret # DEVICE_OK THEN c2
                  ELSE SetLastSpeed(PropSet(c2, d, prop, c2.ans.val), F, d, axisLetter,
                                    c2.ans.val))
    ELSE Let(PropGet(c, d, prop), LAMBDA tmp :
         Let(QueryCommandVerify(c, F, Write("S", axisLetter, Format6(tmp))), LAMBDA c1 :
             IF c1.ret # DEVICE_OK THEN c1
             ELSE IF c.devs[d].speedTruth
                  THEN OnSpeedGeneric([c1 EXCEPT !.devs[d].refreshOverride = TRUE], F, d,
                                      BeforeGet, axisLetter, prop)
                  ELSE SetLastSpeed(c1, F, d, axisLetter, tmp)))

\* a read that forgets the factor of 1000
OnBacklashGeneric_ReadUnscaled(c, F, d, eAct, axisLetter, prop) ==
    IF eAct = BeforeGet
    THEN IF SkipRefresh(c, d) THEN Ret(c, DEVICE_OK)
         ELSE Let(QueryAndParse(c, F, Query("B", axisLetter)), LAMBDA c2 :
                  IF c2.ret # DEVICE_OK THEN c2
                  ELSE PropSet(c2, d, prop, c2.ans.val))
    ELSE QueryCommandVerify(c, F,
            Write("B", axisLetter, Format6(PropGet(c, d, prop) \div 1000)))

\* backlash: "B", millimetres on the wire and micrometres in the property
OnBacklashGeneric(c, F, d, eAct, axisLetter, prop) ==
    IF eAct = BeforeGet
    THEN IF SkipRefresh(c, d) THEN Ret(c, DEVICE_OK)
         ELSE Let(QueryAndParse(c, F, Query("B", axisLetter)), LAMBDA c2 :
                  IF c2.ret # DEVICE_OK THEN c2
                  ELSE PropSet(c2, d, prop, 1000 * c2.ans.val))
    ELSE QueryCommandVerify(c, F,
            Write("B", axisLetter, Format6(PropGet(c, d, prop) \div 1000)))

\* drift error: "E", millimetres on the wire and micrometres in the property
OnDriftErrorGeneric(c, F, d, eAct, axisLetter, prop) ==
    IF eAct = BeforeGet
    THEN IF SkipRefresh(c, d) THEN Ret(c, DEVICE_OK)
         ELSE Let(QueryAndParse(c, F, Query("E", axisLetter)), LAMBDA c2 :
                  IF c2.ret # DEVICE_OK THEN c2
                  ELSE PropSet(c2, d, prop, 1000 * c2.ans.val))
    ELSE QueryCommandVerify(c, F,
            Write("E", axisLetter, Format6(PropGet(c, d, prop) \div 1000)))

\* finish error: "PC", millimetres on the wire and micrometres in the property
OnFinishErrorGeneric(c, F, d, eAct, axisLetter, prop) ==
    IF eAct = BeforeGet
    THEN IF SkipRefresh(c, d) THEN Ret(c, DEVICE_OK)
         ELSE Let(QueryAndParse(c, F, Query("PC", axisLetter)), LAMBDA c2 :
                  IF c2.ret # DEVICE_OK THEN c2
                  ELSE PropSet(c2, d, prop, 1000 * c2.ans.val))
    ELSE QueryCommandVerify(c, F,
            Write("PC", axisLetter, Format6(PropGet(c, d, prop) \div 1000)))

\* the vector handler reads and clears the override of the speed handler
OnVectorGeneric(c, F, d, eAct, axisLetter, prop) ==
    IF eAct = BeforeGet
    THEN IF SkipRefresh(c, d) /\ ~c.devs[d].refreshOverride THEN Ret(c, DEVICE_OK)
         ELSE Let(QueryAndParse([c EXCEPT !.devs[d].refreshOverride = FALSE], F,
                                Query("VE", axisLetter)), LAMBDA c2 :
                  IF c2.ret # DEVICE_OK THEN c2
                  ELSE PropSet(c2, d, prop, c2.ans.val))
    ELSE QueryCommandVerify(c, F, Write("VE", axisLetter, Format6(PropGet(c, d, prop))))

-----------------------------------------------------------------------------
(* CPMT: handlers *)

\* UpdateGain(): WRDAC <channel>?, the answer becomes gain_ (a channel is
\* named by the peripheral's letter)
UpdateGain(c, F, d) ==
    Let(QueryAndParse(c, F, Query("WRDAC", c.devs[d].axisLetter)), LAMBDA c2 :
        IF c2.ret # DEVICE_OK THEN c2
        ELSE [c2 EXCEPT !.devs[d].gain = c2.ans.val, !.ret = DEVICE_OK])

\* UpdateAvg(): E <axis>?, the answer becomes avg_length_
UpdateAvg(c, F, d) ==
    Let(QueryAndParse(c, F, Query("E", c.devs[d].axisLetter)), LAMBDA c2 :
        IF c2.ret # DEVICE_OK THEN c2
        ELSE [c2 EXCEPT !.devs[d].avg_length = c2.ans.val, !.ret = DEVICE_OK])

\* what UpdateGain() returns is not looked at
OnGain(c, F, d, eAct) ==
    IF eAct = BeforeGet
    THEN IF SkipRefresh(c, d) THEN Ret(c, DEVICE_OK)
         ELSE Let(UpdateGain(c, F, d), LAMBDA c1 :
                  PropSet(c1, d, g_PMTGainPropertyName, c1.devs[d].gain))
    ELSE LET tmp == PropGet(c, d, g_PMTGainPropertyName)
         IN  Let(QueryCommandVerify(c, F, Write("WRDAC", c.devs[d].axisLetter, tmp)), LAMBDA c1 :
             IF c1.ret # DEVICE_OK THEN c1
             ELSE [c1 EXCEPT !.devs[d].gain = tmp])

\* what UpdateAvg() returns is not looked at
OnAverage(c, F, d, eAct) ==
    IF eAct = BeforeGet
    THEN IF SkipRefresh(c, d) THEN Ret(c, DEVICE_OK)
         ELSE Let(UpdateAvg(c, F, d), LAMBDA c1 :
                  PropSet(c1, d, g_PMTAVGPropertyName, c1.devs[d].avg_length))
    ELSE LET tmp == PropGet(c, d, g_PMTAVGPropertyName)
         IN  Let(QueryCommandVerify(c, F, Write("E", c.devs[d].axisLetter, tmp)), LAMBDA c1 :
             IF c1.ret # DEVICE_OK THEN c1
             ELSE [c1 EXCEPT !.devs[d].avg_length = tmp])

PMTSaveLetter(tmpstr) ==
    CASE tmpstr = g_SaveSettingsX -> "X"
      [] tmpstr = g_SaveSettingsY -> "Y"
      [] tmpstr = g_SaveSettingsZ -> "Z"
      [] OTHER -> ""

OnSaveCardSettingsPMT(c, F, d, eAct) ==
    IF eAct # AfterSet THEN Ret(c, DEVICE_OK)
    ELSE IF UpdatingSharedProperties(c) THEN Ret(c, DEVICE_OK)
    ELSE LET tmpstr == PropGet(c, d, g_SaveSettingsPropertyName)
         IN  IF tmpstr \in {g_SaveSettingsOrig, g_SaveSettingsDone} THEN Ret(c, DEVICE_OK)
             ELSE Let(QueryCommandVerify(c, F, Delayed(Write("SS " \o PMTSaveLetter(tmpstr), c.devs[d].addr, 0), 200)), LAMBDA c1 :
                      IF c1.ret # DEVICE_OK THEN c1
                      ELSE UpdateSharedProperties(
                              PropSet(c1, d, g_SaveSettingsPropertyName, g_SaveSettingsDone),
                              F, d, g_SaveSettingsPropertyName, g_SaveSettingsDone))

-----------------------------------------------------------------------------
(* CPLogic: handlers *)

OnTriggerSource(c, F, d, eAct) ==
    LET ax == c.devs[d].axisLetter
    IN  IF eAct = BeforeGet
        THEN IF SkipRefresh(c, d) THEN Ret(c, DEVICE_OK)
             ELSE Let(QueryAndParse(c, F, Query("PM", ax)), LAMBDA c2 :
                      IF c2.ret # DEVICE_OK THEN c2
                      ELSE IF c2.ans.val \notin 0..4 THEN Ret(c2, DEVICE_INVALID_PROPERTY_VALUE)
                      ELSE PropSet(c2, d, g_TriggerSourcePropertyName,
                                   g_TriggerSourceCode(c2.ans.val)))
        ELSE Let(PropertyData(g_TriggerSourcePropertyName,
                                     PropGet(c, d, g_TriggerSourcePropertyName)), LAMBDA tmp :
                 IF tmp = -1 THEN Ret(c, DEVICE_NO_PROPERTY_DATA)
                 ELSE QueryCommandVerify(c, F, Write("PM", ax, tmp)))

\* the letter CPLogic::OnSaveCardSettings sends after "SS "
PLSaveLetter(tmpstr) ==
    CASE tmpstr = g_SaveSettingsX -> "X"
      [] tmpstr = g_SaveSettingsY -> "X"
      [] tmpstr = g_SaveSettingsZ -> "Z"
      [] OTHER -> ""

\* the card has no shared properties: nothing is propagated
OnSaveCardSettingsPL(c, F, d, eAct) ==
    IF eAct # AfterSet THEN Ret(c, DEVICE_OK)
    ELSE LET tmpstr == PropGet(c, d, g_SaveSettingsPropertyName)
         IN  IF tmpstr \in {g_SaveSettingsOrig, g_SaveSettingsDone} THEN Ret(c, DEVICE_OK)
             ELSE Let(QueryCommandVerify(c, F,
                          Delayed(Write("SS " \o PLSaveLetter(tmpstr), c.devs[d].addr, 0), 200)),
                      LAMBDA c1 :
                      IF c1.ret # DEVICE_OK THEN c1
                      ELSE PropSet(c1, d, g_SaveSettingsPropertyName, g_SaveSettingsDone))

\* the AfterSet branch of the pre-init property that says how the card is
\* used, on the peripheral's record
OnPLogicMode(dv, tmpstr) ==
    CASE tmpstr = g_PLogicModediSPIMShutter ->
            [dv EXCEPT !.useAsdiSPIMShutter = TRUE, !.useAs4ChShutter = TRUE,
                       !.useAs7ChShutter = FALSE]
      [] tmpstr = g_PLogicMode4ChShutter ->
            [dv EXCEPT !.useAsdiSPIMShutter = FALSE, !.useAs4ChShutter = TRUE,
                       !.useAs7ChShutter = FALSE]
      [] tmpstr = g_PLogicMode7ChShutter ->
            [dv EXCEPT !.useAsdiSPIMShutter = FALSE, !.useAs4ChShutter = FALSE,
                       !.useAs7ChShutter = TRUE]
      [] tmpstr = g_PLogicMode7ChTTLShutter ->
            [dv EXCEPT !.useAsdiSPIMShutter = TRUE, !.useAs4ChShutter = FALSE,
                       !.useAs7ChShutter = TRUE]
      [] OTHER ->
            [dv EXCEPT !.useAsdiSPIMShutter = FALSE, !.useAs4ChShutter = FALSE,
                       !.useAs7ChShutter = FALSE]

OnSetShutterChannel(c, F, d, eAct) ==
    IF eAct = BeforeGet
    THEN IF ~c.devs[d].initialized
         THEN PropSet(c, d, g_SetChannelPropertyName,
                      IF c.devs[d].useAs4ChShutter THEN g_4ChannelNone ELSE g_7ChannelNone)
         ELSE Ret(c, DEVICE_OK)
    ELSE Let(ChannelData(c.devs[d], PropGet(c, d, g_SetChannelPropertyName)), LAMBDA tmp :
         IF tmp < 0 THEN Ret(c, DEVICE_OK)
         ELSE QueryCommandVerify(c, F, Write("CCAX", c.devs[d].addr, tmp)))

\* the preset is sent as it is; a negative number is a value that sends
\* nothing.  Preset 14 of the diSPIM shutter resets the channel as well,
\* and what that returns is not looked at.
OnSetCardPreset(c, F, d, eAct) ==
    IF eAct = BeforeGet
    THEN IF ~c.devs[d].initialized THEN PropSet(c, d, g_SetCardPresetPropertyName, g_PresetCodeNone)
         ELSE Ret(c, DEVICE_OK)
    ELSE Let(PropertyData(g_SetCardPresetPropertyName,
                          PropGet(c, d, g_SetCardPresetPropertyName)), LAMBDA tmp :
         IF tmp < 0 THEN Ret(c, DEVICE_OK)
         ELSE Let(QueryCommandVerify(c, F, Write("CCAX", c.devs[d].addr, tmp)), LAMBDA c1 :
              IF c1.ret # DEVICE_OK THEN c1
              ELSE IF c1.devs[d].useAsdiSPIMShutter /\ tmp = 14
              THEN Ret(SetProperty(c1, F, d, g_SetChannelPropertyName, g_4ChannelNone), DEVICE_OK)
              ELSE Ret(c1, DEVICE_OK)))

\* SetOpen as the claim of the shutter states it: the state is taken over
\* only when the preset was acknowledged, and a failure is returned
SetOpen_Checked(c, F, d, open) ==
    IF c.devs[d].useAs4ChShutter \/ c.devs[d].useAs7ChShutter
    THEN Let(SetProperty(c, F, d, g_SetCardPresetPropertyName,
                         IF open THEN g_PresetCode(11) ELSE g_PresetCode(10)), LAMBDA c1 :
             IF c1.ret # DEVICE_OK THEN c1
             ELSE [c1 EXCEPT !.devs[d].shutterOpen = open])
    ELSE Ret(c, DEVICE_OK)

\* shutterOpen_ is assigned before the preset is sent, and what
\* SetProperty returns is not looked at
SetOpen(c, F, d, open) ==
    IF c.devs[d].useAs4ChShutter \/ c.devs[d].useAs7ChShutter
    THEN Ret(SetProperty([c EXCEPT !.devs[d].shutterOpen = open], F, d,
                         g_SetCardPresetPropertyName,
                         IF open THEN g_PresetCode(11) ELSE g_PresetCode(10)), DEVICE_OK)
    ELSE Ret(c, DEVICE_OK)

GetOpen(dv) == (dv.useAs4ChShutter \/ dv.useAs7ChShutter) /\ dv.shutterOpen

\* no command when the pointer is there already
SetPositionDirectly(c, F, d, position) ==
    IF position = c.devs[d].currentPosition THEN Ret(c, DEVICE_OK)
    ELSE Let(QueryCommandVerify(c, F, Write("M", c.devs[d].axisLetter, position)), LAMBDA c1 :
             IF c1.ret # DEVICE_OK THEN c1
             ELSE [c1 EXCEPT !.devs[d].currentPosition = position])

\* W <axis>: the answer becomes currentPosition_
RefreshCurrentPosition(c, F, d) ==
    Let(QueryAndParse(c, F, Query("W", c.devs[d].axisLetter)), LAMBDA c2 :
        IF c2.ret # DEVICE_OK THEN c2
        ELSE [c2 EXCEPT !.devs[d].currentPosition = c2.ans.val, !.ret = DEVICE_OK])

IsIOAddress(p) ==
    p >= PLOGIC_FRONTPANEL_START_ADDRESS /\ p <= PLOGIC_BACKPLANE_END_ADDRESS

IsPhysicalIOAddress(p) ==
    p >= PLOGIC_PHYSICAL_IO_START_ADDRESS /\ p <= PLOGIC_PHYSICAL_IO_END_ADDRESS

\* UpdateProperty of each name in turn; what it returns is not looked at
RECURSIVE UpdateEach(_, _, _, _)
UpdateEach(c, F, d, names) ==
    IF names = <<>> THEN c
    ELSE UpdateEach(UpdateProperty(c, F, d, Head(names)), F, d, Tail(names))

RefreshAdvancedCellPropertyValues_NoRestore(c, F, d, index) ==
    LET c0 == GetProperty(c, F, d, g_RefreshPropValsPropertyName)
    IN  Let(SetProperty(c0, F, d, g_RefreshPropValsPropertyName, g_YesState), LAMBDA c1 :
        Ret(UpdateEach(c1, F, d,
                <<GetCellPropertyName(index, "_Config"), GetCellPropertyName(index, "_Input1"),
                  GetCellPropertyName(index, "_Input2"), GetCellPropertyName(index, "_Input3"),
                  GetCellPropertyName(index, "_Input4")>>), DEVICE_OK))

\* the refresh flag is forced on around the re-read of the cell's config
\* and inputs and restored after it; nothing that fails here is reported
RefreshAdvancedCellPropertyValues(c, F, d, index) ==
    LET c0 == GetProperty(c, F, d, g_RefreshPropValsPropertyName)
        refreshPropValsStr == PropGet(c0, d, g_RefreshPropValsPropertyName)
    IN  Let(SetProperty(c0, F, d, g_RefreshPropValsPropertyName, g_YesState), LAMBDA c1 :
        LET c2 == UpdateEach(c1, F, d,
                <<GetCellPropertyName(index, "_Config"), GetCellPropertyName(index, "_Input1"),
                  GetCellPropertyName(index, "_Input2"), GetCellPropertyName(index, "_Input3"),
                  GetCellPropertyName(index, "_Input4")>>)
            c3 == SetProperty(c2, F, d, g_RefreshPropValsPropertyName, refreshPropValsStr)
        IN  Ret(c3, DEVICE_OK))

\* the read branch serves EditCellType and the per-cell "_CellType"
\* properties; the write branch the per-cell properties only
OnCellType(c, F, d, eAct, index, pProp) ==
    IF eAct = BeforeGet
    THEN IF SkipRefresh(c, d) THEN Ret(c, DEVICE_OK)
         ELSE Let(SetPositionDirectly(c, F, d, index), LAMBDA c1 :
              Let(QueryAndParse(c1, F, Query("CCAY", c.devs[d].addr)), LAMBDA c2 :
              LET tmp == c2.ans.val
              IN  IF c1.ret # DEVICE_OK THEN c1
                  ELSE IF c2.ret # DEVICE_OK THEN c2
                  ELSE IF c2.devs[d].currentPosition > c2.devs[d].numCells
                       THEN IF tmp \in 0..2 THEN PropSet(c2, d, pProp, g_IOTypeCode(tmp))
                            ELSE Ret(c2, DEVICE_INVALID_PROPERTY_VALUE)
                       ELSE IF tmp \in 0..18 THEN PropSet(c2, d, pProp, g_CellTypeCode(tmp))
                            ELSE Ret(c2, DEVICE_INVALID_PROPERTY_VALUE)))
    ELSE Let(PropertyData(GetCellPropertyName(index, "_CellType"),
                          PropGet(c, d, GetCellPropertyName(index, "_CellType"))), LAMBDA tmp :
         IF tmp = -1 THEN Ret(c, DEVICE_NO_PROPERTY_DATA)
         ELSE Let(SetPositionDirectly(c, F, d, index), LAMBDA c1 :
              IF c1.ret # DEVICE_OK THEN c1
              ELSE Let(QueryCommandVerify(c1, F, Write("CCAY", c.devs[d].addr, tmp)), LAMBDA c2 :
                   IF c2.ret # DEVICE_OK THEN c2
                   ELSE RefreshAdvancedCellPropertyValues(c2, F, d, index))))

\* the write branch sends the number attached to the value, 100 to 102,
\* as it is
OnIOType(c, F, d, eAct, index, pProp) ==
    IF eAct = BeforeGet
    THEN IF SkipRefresh(c, d) THEN Ret(c, DEVICE_OK)
         ELSE Let(SetPositionDirectly(c, F, d, index), LAMBDA c1 :
              Let(QueryAndParse(c1, F, Query("CCAY", c.devs[d].addr)), LAMBDA c2 :
              LET tmp == c2.ans.val
              IN  IF c1.ret # DEVICE_OK THEN c1
                  ELSE IF c2.ret # DEVICE_OK THEN c2
                  ELSE IF tmp \in 0..2 THEN PropSet(c2, d, pProp, g_IOTypeCode(tmp))
                  ELSE Ret(c2, DEVICE_INVALID_PROPERTY_VALUE)))
    ELSE Let(PropertyData(GetIOPropertyName(index, "_IOType"),
                          PropGet(c, d, GetIOPropertyName(index, "_IOType"))), LAMBDA tmp :
         IF tmp = -1 THEN Ret(c, DEVICE_NO_PROPERTY_DATA)
         ELSE Let(SetPositionDirectly(c, F, d, index), LAMBDA c1 :
              IF c1.ret # DEVICE_OK THEN c1
              ELSE QueryCommandVerify(c1, F, Write("CCAY", c.devs[d].addr, tmp))))

\* OnCellConfig and OnInput1..OnInput4 share one shape: the register is
\* "CCAZ" for the config and "CCBX", "CCBY", "CCBZ", "CCBF" for the inputs
OnCellRegister(c, F, d, eAct, index, pProp, reg) ==
    IF eAct = BeforeGet
    THEN IF SkipRefresh(c, d) THEN Ret(c, DEVICE_OK)
         ELSE Let(SetPositionDirectly(c, F, d, index), LAMBDA c1 :
              Let(QueryAndParse(c1, F, Query(reg, c.devs[d].addr)), LAMBDA c2 :
                  IF c1.ret # DEVICE_OK THEN c1
                  ELSE IF c2.ret # DEVICE_OK THEN c2
                  ELSE PropSet(c2, d, pProp, c2.ans.val)))
    ELSE LET tmp == PropGet(c, d, pProp)
         IN  Let(SetPositionDirectly(c, F, d, index), LAMBDA c1 :
             IF c1.ret # DEVICE_OK THEN c1
             ELSE QueryCommandVerify(c1, F, Write(reg, c.devs[d].addr, tmp)))

OnCellConfig(c, F, d, eAct, index, pProp) ==
    OnCellRegister(c, F, d, eAct, index, pProp, "CCAZ")

OnInput1(c, F, d, eAct, index, pProp) == OnCellRegister(c, F, d, eAct, index, pProp, "CCBX")
OnInput2(c, F, d, eAct, index, pProp) == OnCellRegister(c, F, d, eAct, index, pProp, "CCBY")
OnInput3(c, F, d, eAct, index, pProp) == OnCellRegister(c, F, d, eAct, index, pProp, "CCBZ")
OnInput4(c, F, d, eAct, index, pProp) == OnCellRegister(c, F, d, eAct, index, pProp, "CCBF")

\* the source address of an I/O is its "CCAZ" register
OnIOSourceAddress(c, F, d, eAct, index, pProp) ==
    OnCellRegister(c, F, d, eAct, index, pProp, "CCAZ")

RefreshEditCellPropertyValues_NoForce(c, F, d) ==
    LET pos == c.devs[d].currentPosition
        c2 == IF c.devs[d].editCellUpdates /\ pos <= c.devs[d].numCells
              THEN UpdateEach(c, F, d,
                      <<g_EditCellTypePropertyName, g_EditCellConfigPropertyName,
                        g_EditCellInput1PropertyName, g_EditCellInput2PropertyName,
                        g_EditCellInput3PropertyName, g_EditCellInput4PropertyName>>)
              ELSE IF c.devs[d].editCellUpdates /\ IsPhysicalIOAddress(pos)
              THEN UpdateEach(c, F, d,
                      <<g_EditCellTypePropertyName, g_EditCellConfigPropertyName>>)
              ELSE c
    IN  Ret(c2, DEVICE_OK)

\* the refresh flag is forced on around the re-read of the edit-cell
\* properties and restored after it; nothing that fails here is reported.
\* When the refresh property does not exist yet (the first call from
\* Initialize) the buffer read back is never written, and the two sets fail.
RefreshEditCellPropertyValues(c, F, d) ==
    LET c0 == GetProperty(c, F, d, g_RefreshPropValsPropertyName)
        refreshPropValsStr == IF HasProperty(c0, d, g_RefreshPropValsPropertyName)
            THEN PropGet(c0, d, g_RefreshPropValsPropertyName) ELSE BogusValue
    IN  Let(SetProperty(c0, F, d, g_RefreshPropValsPropertyName, g_YesState), LAMBDA c1 :
    LET pos == c1.devs[d].currentPosition
        c2 == IF c1.devs[d].editCellUpdates /\ pos <= c1.devs[d].numCells
              THEN UpdateEach(c1, F, d,
                      <<g_EditCellTypePropertyName, g_EditCellConfigPropertyName,
                        g_EditCellInput1PropertyName, g_EditCellInput2PropertyName,
                        g_EditCellInput3PropertyName, g_EditCellInput4PropertyName>>)
              ELSE IF c1.devs[d].editCellUpdates /\ IsPhysicalIOAddress(pos)
              THEN UpdateEach(c1, F, d,
                      <<g_EditCellTypePropertyName, g_EditCellConfigPropertyName>>)
              ELSE c1
        c3 == SetProperty(c2, F, d, g_RefreshPropValsPropertyName, refreshPropValsStr)
    IN  Ret(c3, DEVICE_OK))

\* what RefreshCurrentPosition() returns is not looked at
RECURSIVE OnPointerPosition(_, _, _, _)
OnPointerPosition(c, F, d, eAct) ==
    IF eAct = BeforeGet
    THEN IF SkipRefresh(c, d) /\ ~c.st.OnPointerPosition_justSet THEN Ret(c, DEVICE_OK)
         ELSE Let(RefreshCurrentPosition(c, F, d), LAMBDA c1 :
              LET c2 == PropSet(c1, d, g_PointerPositionPropertyName,
                                c1.devs[d].currentPosition)
              IN  Let(RefreshEditCellPropertyValues(c2, F, d), LAMBDA c3 :
                  IF c3.ret # DEVICE_OK THEN c3
                  ELSE [c3 EXCEPT !.st.OnPointerPosition_justSet = FALSE]))
    ELSE LET val == PropGet(c, d, g_PointerPositionPropertyName)
         IN  Let(QueryCommandVerify(c, F, Write("M", c.devs[d].axisLetter, val)), LAMBDA c1 :
             IF c1.ret # DEVICE_OK THEN c1
             ELSE OnPointerPosition([c1 EXCEPT !.st.OnPointerPosition_justSet = TRUE],
                                    F, d, BeforeGet))

OnEditCellType_NoTypeCheck(c, F, d, eAct) ==
    LET pos == c.devs[d].currentPosition
    IN  IF pos <= c.devs[d].numCells \/ IsIOAddress(pos)
        THEN IF eAct = BeforeGet
             THEN OnCellType(c, F, d, eAct, pos, g_EditCellTypePropertyName)
             ELSE Let(PropertyData(g_EditCellTypePropertyName,
                                          PropGet(c, d, g_EditCellTypePropertyName)), LAMBDA tmp :
                      IF tmp = -1 THEN Ret(c, DEVICE_NO_PROPERTY_DATA)
                      ELSE Let(QueryCommandVerify(c, F,
                                        Write("CCAY", c.devs[d].addr,
                                              IF tmp >= 100 THEN tmp - 100 ELSE tmp)), LAMBDA c1 :
                               IF c1.ret # DEVICE_OK THEN c1
                               ELSE RefreshEditCellPropertyValues(c1, F, d)))
        ELSE Ret(c, DEVICE_OK)

OnEditCellType_KeepOffset(c, F, d, eAct) ==
    LET pos == c.devs[d].currentPosition
    IN  IF pos <= c.devs[d].numCells \/ IsIOAddress(pos)
        THEN IF eAct = BeforeGet
             THEN OnCellType(c, F, d, eAct, pos, g_EditCellTypePropertyName)
             ELSE Let(PropertyData(g_EditCellTypePropertyName,
                                          PropGet(c, d, g_EditCellTypePropertyName)), LAMBDA tmp :
                      IF tmp = -1 THEN Ret(c, DEVICE_NO_PROPERTY_DATA)
                      ELSE IF IsIOAddress(pos) /\ tmp < 100
                           THEN Ret(c, DEVICE_INVALID_PROPERTY_VALUE)
                      ELSE IF ~IsIOAddress(pos) /\ tmp >= 100
                           THEN Ret(c, DEVICE_INVALID_PROPERTY_VALUE)
                      ELSE Let(QueryCommandVerify(c, F, Write("CCAY", c.devs[d].addr, tmp)),
                               LAMBDA c1 :
                               IF c1.ret # DEVICE_OK THEN c1
                               ELSE RefreshEditCellPropertyValues(c1, F, d)))
        ELSE Ret(c, DEVICE_OK)

OnEditCellType(c, F, d, eAct) ==
    LET pos == c.devs[d].currentPosition
    IN  IF pos <= c.devs[d].numCells \/ IsIOAddress(pos)
        THEN IF eAct = BeforeGet
             THEN OnCellType(c, F, d, eAct, pos, g_EditCellTypePropertyName)
             ELSE Let(PropertyData(g_EditCellTypePropertyName,
                                          PropGet(c, d, g_EditCellTypePropertyName)), LAMBDA tmp :
                      IF tmp = -1 THEN Ret(c, DEVICE_NO_PROPERTY_DATA)
                      ELSE IF IsIOAddress(pos) /\ tmp < 100
                           THEN Ret(c, DEVICE_INVALID_PROPERTY_VALUE)
                      ELSE IF ~IsIOAddress(pos) /\ tmp >= 100
                           THEN Ret(c, DEVICE_INVALID_PROPERTY_VALUE)
                      ELSE Let(QueryCommandVerify(c, F,
                                        Write("CCAY", c.devs[d].addr,
                                              IF tmp >= 100 THEN tmp - 100 ELSE tmp)), LAMBDA c1 :
                               IF c1.ret # DEVICE_OK THEN c1
                               ELSE RefreshEditCellPropertyValues(c1, F, d)))
        ELSE Ret(c, DEVICE_OK)

OnEditCellConfig(c, F, d, eAct) ==
    LET pos == c.devs[d].currentPosition
    IN  IF pos <= c.devs[d].numCells \/ IsPhysicalIOAddress(pos)
        THEN OnCellConfig(c, F, d, eAct, pos, g_EditCellConfigPropertyName)
        ELSE Ret(c, DEVICE_OK)

OnEditCellInput1(c, F, d, eAct) ==
    IF c.devs[d].currentPosition <= c.devs[d].numCells
    THEN OnInput1(c, F, d, eAct, c.devs[d].currentPosition, g_EditCellInput1PropertyName)
    ELSE Ret(c, DEVICE_OK)

OnEditCellInput2(c, F, d, eAct) ==
    IF c.devs[d].currentPosition <= c.devs[d].numCells
    THEN OnInput2(c, F, d, eAct, c.devs[d].currentPosition, g_EditCellInput2PropertyName)
    ELSE Ret(c, DEVICE_OK)

OnEditCellInput3(c, F, d, eAct) ==
    IF c.devs[d].currentPosition <= c.devs[d].numCells
    THEN OnInput3(c, F, d, eAct, c.devs[d].currentPosition, g_EditCellInput3PropertyName)
    ELSE Ret(c, DEVICE_OK)

OnEditCellInput4(c, F, d, eAct) ==
    IF c.devs[d].currentPosition <= c.devs[d].numCells
    THEN OnInput4(c, F, d, eAct, c.devs[d].currentPosition, g_EditCellInput4PropertyName)
    ELSE Ret(c, DEVICE_OK)

OnEditCellUpdates(c, F, d, eAct) ==
    IF eAct = AfterSet
    THEN [c EXCEPT !.devs[d].editCellUpdates =
                      (PropGet(c, d, g_EditCellUpdateAutomaticallyPropertyName) = g_YesState),
                   !.ret = DEVICE_OK]
    ELSE Ret(c, DEVICE_OK)

\* the addresses the model's card has: two cells, an address that is
\* neither a cell nor an I/O, and a front-panel I/O.  The pointer visits
\* these, and the loops over the cells and the I/Os create the properties
\* of these.
PLPositions == {1, 2, 20, 33}

\* one pass of the loop over the cells: six properties, each created and
\* updated
CreateCellProperties(c, F, d, i) ==
    Let(CreateAndUpdate(c, F, d, GetCellPropertyName(i, "_CellType"), g_CellTypeCode(0)), LAMBDA c1 :
    Let(CreateAndUpdate(c1, F, d, GetCellPropertyName(i, "_Config"), 0), LAMBDA c2 :
    Let(CreateAndUpdate(c2, F, d, GetCellPropertyName(i, "_Input1"), 0), LAMBDA c3 :
    Let(CreateAndUpdate(c3, F, d, GetCellPropertyName(i, "_Input2"), 0), LAMBDA c4 :
    Let(CreateAndUpdate(c4, F, d, GetCellPropertyName(i, "_Input3"), 0), LAMBDA c5 :
        CreateAndUpdate(c5, F, d, GetCellPropertyName(i, "_Input4"), 0))))))

\* one pass of the loop over the I/Os
CreateIOProperties(c, F, d, i) ==
    Let(CreateAndUpdate(c, F, d, GetIOPropertyName(i, "_IOType"), "0"), LAMBDA c1 :
        CreateAndUpdate(c1, F, d, GetIOPropertyName(i, "_SourceAddress"), 0))

\* for (i = from; i <= to; i++), over the addresses the card has
RECURSIVE CreateAdvancedLoop(_, _, _, _, _)
CreateAdvancedLoop(c, F, d, i, to) ==
    IF i > to THEN c
    ELSE IF i \notin PLPositions THEN CreateAdvancedLoop(c, F, d, i + 1, to)
    ELSE Let(IF i <= c.devs[d].numCells THEN CreateCellProperties(c, F, d, i)
             ELSE CreateIOProperties(c, F, d, i), LAMBDA c1 :
             CreateAdvancedLoop(c1, F, d, i + 1, to))

OnAdvancedProperties_Repeat(c, F, d, eAct) ==
    IF eAct = BeforeGet THEN Ret(c, DEVICE_OK)
    ELSE IF PropGet(c, d, g_AdvancedPropertiesPropertyName) = g_YesState
    THEN LET c0 == GetProperty([c EXCEPT !.devs[d].advancedPropsEnabled = TRUE,
                                         !.devs[d].initialized = FALSE],
                               F, d, g_RefreshPropValsPropertyName)
             refreshPropValsStr == PropGet(c0, d, g_RefreshPropValsPropertyName)
         IN  Let(SetProperty(c0, F, d, g_RefreshPropValsPropertyName, g_YesState), LAMBDA c1 :
             Let(CreateAdvancedLoop(c1, F, d, 1, c1.devs[d].numCells), LAMBDA c2 :
             Let(CreateAdvancedLoop(c2, F, d, PLOGIC_FRONTPANEL_START_ADDRESS,
                                    PLOGIC_BACKPLANE_END_ADDRESS), LAMBDA c3 :
             LET c4 == SetProperty(c3, F, d, g_RefreshPropValsPropertyName, refreshPropValsStr)
             IN  [c4 EXCEPT !.devs[d].initialized = TRUE, !.ret = DEVICE_OK])))
    ELSE Ret(c, DEVICE_OK)

\* the advanced properties are created by the first set to Yes: the
\* initialized flag is lowered and the refresh flag forced on while the
\* per-cell and per-I/O properties are created and read, and both are put
\* back; nothing that fails on the way is reported
OnAdvancedProperties(c, F, d, eAct) ==
    IF eAct = BeforeGet THEN Ret(c, DEVICE_OK)
    ELSE IF PropGet(c, d, g_AdvancedPropertiesPropertyName) = g_YesState
            /\ ~c.devs[d].advancedPropsEnabled
    THEN LET c0 == GetProperty([c EXCEPT !.devs[d].advancedPropsEnabled = TRUE,
                                         !.devs[d].initialized = FALSE],
                               F, d, g_RefreshPropValsPropertyName)
             refreshPropValsStr == PropGet(c0, d, g_RefreshPropValsPropertyName)
         IN  Let(SetProperty(c0, F, d, g_RefreshPropValsPropertyName, g_YesState), LAMBDA c1 :
             Let(CreateAdvancedLoop(c1, F, d, 1, c1.devs[d].numCells), LAMBDA c2 :
             Let(CreateAdvancedLoop(c2, F, d, PLOGIC_FRONTPANEL_START_ADDRESS,
                                    PLOGIC_BACKPLANE_END_ADDRESS), LAMBDA c3 :
             LET c4 == SetProperty(c3, F, d, g_RefreshPropValsPropertyName, refreshPropValsStr)
             IN  [c4 EXCEPT !.devs[d].initialized = TRUE, !.ret = DEVICE_OK])))
    ELSE Ret(c, DEVICE_OK)

-----------------------------------------------------------------------------
(* Handler dispatch: the handler bound to a property at creation *)

\* the save-settings handler of the host of the mixins: the shape the other
\* cards' handlers have
OnSaveCardSettingsZ(c, F, d, eAct) ==
    IF eAct # AfterSet THEN Ret(c, DEVICE_OK)
    ELSE IF UpdatingSharedProperties(c) THEN Ret(c, DEVICE_OK)
    ELSE LET tmpstr == PropGet(c, d, g_SaveSettingsPropertyName)
         IN  IF tmpstr \in {g_SaveSettingsOrig, g_SaveSettingsDone} THEN Ret(c, DEVICE_OK)
             ELSE Let(QueryCommandVerify(c, F,
                               Delayed(Write("SS " \o XYSaveLetter(tmpstr), c.devs[d].addr, 0), 200)), LAMBDA c1 :
                      IF c1.ret # DEVICE_OK THEN c1
                      ELSE UpdateSharedProperties(
                              PropSet(c1, d, g_SaveSettingsPropertyName, g_SaveSettingsDone),
                              F, d, g_SaveSettingsPropertyName, g_SaveSettingsDone))

HandlerZ(c, F, d, prop, eAct) ==
    CASE prop = g_SAAmplitudePropertyName -> SingleAxisAmplitude(c, F, d, eAct)
      [] prop = g_SAOffsetPropertyName -> SingleAxisOffset(c, F, d, eAct)
      [] prop = g_SAPeriodPropertyName -> SingleAxisPeriod(c, F, d, eAct)
      [] prop = g_SAModePropertyName -> SingleAxisMode(c, F, d, eAct)
      [] prop = g_SAPatternPropertyName -> SingleAxisPattern(c, F, d, eAct)
      [] prop = g_AdvancedSAPropertiesPropertyName -> SingleAxisAdvanced(c, F, d, eAct)
      [] prop = g_SAClkSrcPropertyName -> SingleAxisClockSource(c, F, d, eAct)
      [] prop = g_SAClkPolPropertyName -> SingleAxisClockPolarity(c, F, d, eAct)
      [] prop = g_SATTLOutPropertyName -> SingleAxisTTLOutput(c, F, d, eAct)
      [] prop = g_SATTLPolPropertyName -> SingleAxisTTLPolarity(c, F, d, eAct)
      [] prop = g_SAPatternModePropertyName -> SingleAxisPatternByte(c, F, d, eAct)
      [] prop = g_RB_ModePropertyName -> RingBufferMode(c, F, d, eAct)
      [] prop = g_RB_TriggerPropertyName -> RingBufferTrigger(c, F, d, eAct)
      [] prop = g_RB_AutoplayRunningPropertyName -> RingBufferAutoplayRunning(c, F, d, eAct)
      [] prop = g_JoystickSelectPropertyName -> JoystickInput(c, F, d, eAct)
      [] prop = g_JoystickFastSpeedPropertyName -> JoystickFastSpeed(c, F, d, eAct)
      [] prop = g_JoystickSlowSpeedPropertyName -> JoystickSlowSpeed(c, F, d, eAct)
      [] prop = g_JoystickMirrorPropertyName -> JoystickReverse(c, F, d, eAct)
      [] prop = g_WheelFastSpeedPropertyName -> WheelFastSpeed(c, F, d, eAct)
      [] prop = g_WheelSlowSpeedPropertyName -> WheelSlowSpeed(c, F, d, eAct)
      [] prop = g_WheelMirrorPropertyName -> WheelReverse(c, F, d, eAct)
      [] prop = g_SaveSettingsPropertyName -> OnSaveCardSettingsZ(c, F, d, eAct)
      [] OTHER -> Ret(c, DEVICE_OK)

HandlerXY(c, F, d, prop, eAct) ==
    CASE prop = g_SaveSettingsPropertyName -> OnSaveCardSettingsXY(c, F, d, eAct)
      [] prop = g_AdvancedPropertiesPropertyName -> OnAdvancedPropertiesXY(c, F, d, eAct)
      [] prop = g_AAlignPropertyName -> OnAAlign(c, F, d, eAct)
      [] prop = g_AZeroXPropertyName -> OnAZeroX(c, F, d, eAct)
      [] prop = g_RB_ModePropertyName -> OnRBMode(c, F, d, eAct)
      [] prop = g_RB_DelayPropertyName -> OnRBDelayBetweenPoints(c, F, d, eAct)
      [] prop = g_RB_TriggerPropertyName -> OnRBTrigger(c, F, d, eAct)
      [] prop = g_RB_AutoplayRunningPropertyName -> OnRBRunning(c, F, d, eAct)
      [] prop = g_UseSequencePropertyName -> OnUseSequence(c, F, d, eAct)
      [] prop = g_JoystickFastSpeedPropertyName -> OnJoystickFastSpeed(c, F, d, eAct)
      [] prop = g_JoystickSlowSpeedPropertyName -> OnJoystickSlowSpeed(c, F, d, eAct)
      [] prop = g_JoystickMirrorPropertyName -> OnJoystickMirror(c, F, d, eAct)
      [] prop = g_JoystickRotatePropertyName -> OnJoystickRotate(c, F, d, eAct)
      [] prop = g_JoystickEnabledPropertyName -> OnJoystickEnableDisable(c, F, d, eAct)
      [] prop = g_WheelFastSpeedPropertyName -> OnWheelFastSpeed(c, F, d, eAct)
      [] prop = g_WheelSlowSpeedPropertyName -> OnWheelSlowSpeed(c, F, d, eAct)
      [] prop = g_WheelMirrorPropertyName -> OnWheelMirror(c, F, d, eAct)
      [] prop = g_MotorSpeedXMicronsPerSecPropertyName -> OnSpeedXMicronsPerSec(c, F, d, eAct)
      [] prop = g_MotorSpeedYMicronsPerSecPropertyName -> OnSpeedYMicronsPerSec(c, F, d, eAct)
      [] prop = g_MotorSpeedXPropertyName ->
            OnSpeedGeneric(c, F, d, eAct, c.devs[d].axisLetterX, prop)
      [] prop = g_MotorSpeedYPropertyName ->
            OnSpeedGeneric(c, F, d, eAct, c.devs[d].axisLetterY, prop)
      [] prop = g_BacklashXPropertyName ->
            OnBacklashGeneric(c, F, d, eAct, c.devs[d].axisLetterX, prop)
      [] prop = g_BacklashYPropertyName ->
            OnBacklashGeneric(c, F, d, eAct, c.devs[d].axisLetterY, prop)
      [] prop = g_DriftErrorXPropertyName ->
            OnDriftErrorGeneric(c, F, d, eAct, c.devs[d].axisLetterX, prop)
      [] prop = g_DriftErrorYPropertyName ->
            OnDriftErrorGeneric(c, F, d, eAct, c.devs[d].axisLetterY, prop)
      [] prop = g_FinishErrorXPropertyName ->
            OnFinishErrorGeneric(c, F, d, eAct, c.devs[d].axisLetterX, prop)
      [] prop = g_FinishErrorYPropertyName ->
            OnFinishErrorGeneric(c, F, d, eAct, c.devs[d].axisLetterY, prop)
      [] prop = g_VectorXPropertyName ->
            OnVectorGeneric(c, F, d, eAct, c.devs[d].axisLetterX, prop)
      [] prop = g_VectorYPropertyName ->
            OnVectorGeneric(c, F, d, eAct, c.devs[d].axisLetterY, prop)
      [] OTHER -> Ret(c, DEVICE_OK)

HandlerPMT(c, F, d, prop, eAct) ==
    CASE prop = g_PMTGainPropertyName -> OnGain(c, F, d, eAct)
      [] prop = g_PMTAVGPropertyName -> OnAverage(c, F, d, eAct)
      [] prop = g_SaveSettingsPropertyName -> OnSaveCardSettingsPMT(c, F, d, eAct)
      [] OTHER -> Ret(c, DEVICE_OK)

HandlerPLogic(c, F, d, prop, eAct) ==
    CASE prop = g_PointerPositionPropertyName -> OnPointerPosition(c, F, d, eAct)
      [] prop = g_TriggerSourcePropertyName -> OnTriggerSource(c, F, d, eAct)
      [] prop = g_EditCellTypePropertyName -> OnEditCellType(c, F, d, eAct)
      [] prop = g_EditCellConfigPropertyName -> OnEditCellConfig(c, F, d, eAct)
      [] prop = g_EditCellInput1PropertyName -> OnEditCellInput1(c, F, d, eAct)
      [] prop = g_EditCellInput2PropertyName -> OnEditCellInput2(c, F, d, eAct)
      [] prop = g_EditCellInput3PropertyName -> OnEditCellInput3(c, F, d, eAct)
      [] prop = g_EditCellInput4PropertyName -> OnEditCellInput4(c, F, d, eAct)
      [] prop = g_EditCellUpdateAutomaticallyPropertyName -> OnEditCellUpdates(c, F, d, eAct)
      [] prop = g_AdvancedPropertiesPropertyName -> OnAdvancedProperties(c, F, d, eAct)
      [] prop = g_SetCardPresetPropertyName -> OnSetCardPreset(c, F, d, eAct)
      [] prop = g_SaveSettingsPropertyName -> OnSaveCardSettingsPL(c, F, d, eAct)
      [] prop = g_SetChannelPropertyName -> OnSetShutterChannel(c, F, d, eAct)
      [] prop \in CellPropertyNames("_CellType") ->
            OnCellType(c, F, d, eAct, CellIndexOf(prop, "_CellType"), prop)
      [] prop \in CellPropertyNames("_Config") ->
            OnCellConfig(c, F, d, eAct, CellIndexOf(prop, "_Config"), prop)
      [] prop \in CellPropertyNames("_Input1") ->
            OnInput1(c, F, d, eAct, CellIndexOf(prop, "_Input1"), prop)
      [] prop \in CellPropertyNames("_Input2") ->
            OnInput2(c, F, d, eAct, CellIndexOf(prop, "_Input2"), prop)
      [] prop \in CellPropertyNames("_Input3") ->
            OnInput3(c, F, d, eAct, CellIndexOf(prop, "_Input3"), prop)
      [] prop \in CellPropertyNames("_Input4") ->
            OnInput4(c, F, d, eAct, CellIndexOf(prop, "_Input4"), prop)
      [] prop \in IOPropertyNames("_IOType") ->
            OnIOType(c, F, d, eAct, IOIndexOf(prop, "_IOType"), prop)
      [] prop \in IOPropertyNames("_SourceAddress") ->
            OnIOSourceAddress(c, F, d, eAct, IOIndexOf(prop, "_SourceAddress"), prop)
      [] OTHER -> Ret(c, DEVICE_OK)

Handler(c, F, d, prop, eAct) ==
    LET kind == c.devs[d].kind
    IN  CASE prop = g_RefreshPropValsPropertyName -> OnRefreshProperties(c, F, d, eAct)
          [] prop # g_RefreshPropValsPropertyName /\ kind = CZStage -> HandlerZ(c, F, d, prop, eAct)
          [] prop # g_RefreshPropValsPropertyName /\ kind = CXYStage -> HandlerXY(c, F, d, prop, eAct)
          [] prop # g_RefreshPropValsPropertyName /\ kind = CPMT -> HandlerPMT(c, F, d, prop, eAct)
          [] prop # g_RefreshPropValsPropertyName /\ kind = CPLogic -> HandlerPLogic(c, F, d, prop, eAct)
          [] OTHER -> Ret(c, DEVICE_OK)

\* a handler call: its entry and its return are logged around its body
Invoke(c, F, d, prop, eAct) ==
    LET c0 == [c EXCEPT !.ev = Append(@, Ev(eAct, NoCmd, TRUE, c, d, prop))]
    IN  Let(Handler(c0, F, d, prop, eAct), LAMBDA c1 :
        [c1 EXCEPT !.ev = Append(@, Ev("ret", NoCmd, c1.ret = DEVICE_OK, c1, d, prop))])

-----------------------------------------------------------------------------
(* One call of the application, as the core serialises them *)

NoCall == [dev |-> "", prop |-> "", act |-> "none", val |-> "", ret |-> DEVICE_OK,
           ev |-> <<>>, hw0 |-> <<>>, devs0 |-> <<>>, st0 |-> <<>>]

\* the failing wire steps of one call: at most MaxFails of the steps made
FailSets(maxStep) == {F \in SUBSET (1..maxStep) : Cardinality(F) <= MaxFails}

Commit(c, d, prop, act, v) ==
    /\ hw' = c.hw
    /\ devs' = c.devs
    /\ st' = c.st
    /\ last' = [dev |-> d, prop |-> prop, act |-> act, val |-> v, ret |-> c.ret,
                ev |-> c.ev, hw0 |-> hw, devs0 |-> devs, st0 |-> st]
    /\ calls' = calls + 1

\* only steps the call makes can fail
Reached(c, F) == \A k \in F : k <= c.n

Get(d, prop, maxStep) ==
    /\ calls < MaxCalls
    /\ devs[d].initialized
    /\ prop \in DOMAIN devs[d].props
    /\ \E F \in FailSets(maxStep) :
          \E c \in {GetProperty(NewCtx(hw, devs, st), F, d, prop)} :
              Reached(c, F) /\ Commit(c, d, prop, "get", "")

Set(d, prop, v, maxStep) ==
    /\ calls < MaxCalls
    /\ devs[d].initialized
    /\ prop \in DOMAIN devs[d].props
    /\ \E F \in FailSets(maxStep) :
          \E c \in {SetProperty(NewCtx(hw, devs, st), F, d, prop, v)} :
              Reached(c, F) /\ Commit(c, d, prop, "set", v)

-----------------------------------------------------------------------------
(* Initialize() of each kind of peripheral *)

\* the host of the three mixins
InitializeZ(dv) ==
    <<Created(g_RefreshPropValsPropertyName, g_NoState),
      Created(g_SaveSettingsPropertyName, g_SaveSettingsOrig)>>
    \o MixinCreateSingleAxisProperties
    \o MixinCreateRingBufferProperties
    \o MixinCreateInputProperties(dv)

\* CXYStage::Initialize, a controller with a ring buffer
InitializeXY(dv) ==
    <<Created(g_RefreshPropValsPropertyName, g_NoState),
      Created(g_SaveSettingsPropertyName, g_SaveSettingsOrig),
      Created(g_MotorSpeedXMicronsPerSecPropertyName, 1000 * 10^6),
      Created(g_MotorSpeedYMicronsPerSecPropertyName, 1000 * 10^6),
      CreatedAndUpdated(g_MotorSpeedXPropertyName, 1000000),
      CreatedAndUpdated(g_MotorSpeedYPropertyName, 1000000),
      CreatedAndUpdated(g_BacklashXPropertyName, 0),
      CreatedAndUpdated(g_BacklashYPropertyName, 0),
      CreatedAndUpdated(g_DriftErrorXPropertyName, 0),
      CreatedAndUpdated(g_DriftErrorYPropertyName, 0),
      CreatedAndUpdated(g_FinishErrorXPropertyName, 0),
      CreatedAndUpdated(g_FinishErrorYPropertyName, 0),
      CreatedAndUpdated(g_JoystickFastSpeedPropertyName, 100),
      CreatedAndUpdated(g_JoystickSlowSpeedPropertyName, 10),
      CreatedAndUpdated(g_JoystickMirrorPropertyName, g_NoState),
      CreatedAndUpdated(g_JoystickRotatePropertyName, g_NoState),
      CreatedAndUpdated(g_JoystickEnabledPropertyName, g_YesState)>>
    \o (IF FirmwareVersionAtLeast(dv, 287)
        THEN <<CreatedAndUpdated(g_WheelFastSpeedPropertyName, 10),
               CreatedAndUpdated(g_WheelSlowSpeedPropertyName, 5),
               CreatedAndUpdated(g_WheelMirrorPropertyName, g_NoState)>>
        ELSE <<>>)
    \o
    <<CreatedAndUpdated(g_AdvancedPropertiesPropertyName, g_NoState)>>
    \o (IF dv.ring_buffer_supported
        THEN <<CreatedAndUpdated(g_RB_ModePropertyName, g_RB_OnePoint_1),
               CreatedAndUpdated(g_RB_DelayPropertyName, 0),
               CreatedAndUpdated(g_RB_TriggerPropertyName, g_IdleState),
               CreatedAndUpdated(g_RB_AutoplayRunningPropertyName, g_NoState),
               Created(g_UseSequencePropertyName, g_NoState)>>
        ELSE <<>>)
    \o
    <<CreatedAndUpdated(g_VectorXPropertyName, 0),
      CreatedAndUpdated(g_VectorYPropertyName, 0)>>

\* CPMT::Initialize
InitializePMT(dv) ==
    <<CreatedAndUpdated(g_PMTGainPropertyName, 0),
      CreatedAndUpdated(g_PMTAVGPropertyName, 1),
      Created(g_RefreshPropValsPropertyName, g_NoState),
      Created(g_SaveSettingsPropertyName, g_SaveSettingsOrig)>>

\* CPLogic::Initialize up to the shutter's part
InitializePLogic(dv) ==
    <<CreatedAndUpdated(g_PointerPositionPropertyName, 0),
      CreatedAndUpdated(g_TriggerSourcePropertyName, "0"),
      CreatedAndUpdated(g_SetCardPresetPropertyName, g_PresetCodeNone),
      Created(g_RefreshPropValsPropertyName, g_NoState),
      Created(g_SaveSettingsPropertyName, g_SaveSettingsOrig),
      CreatedAndUpdated(g_EditCellTypePropertyName, g_CellTypeCode(0)),
      CreatedAndUpdated(g_EditCellConfigPropertyName, 0),
      CreatedAndUpdated(g_EditCellInput1PropertyName, 0),
      CreatedAndUpdated(g_EditCellInput2PropertyName, 0),
      CreatedAndUpdated(g_EditCellInput3PropertyName, 0),
      CreatedAndUpdated(g_EditCellInput4PropertyName, 0),
      Created(g_EditCellUpdateAutomaticallyPropertyName, g_YesState),
      CreatedAndUpdated(g_AdvancedPropertiesPropertyName, g_NoState)>>

\* the steps of Initialize() of a peripheral
InitializeSteps(dv) ==
    CASE dv.kind = CZStage -> InitializeZ(dv)
      [] dv.kind = CXYStage -> InitializeXY(dv)
      [] dv.kind = CPMT -> InitializePMT(dv)
      [] dv.kind = CPLogic -> InitializePLogic(dv)

\* one step: CreateProperty, then UpdateProperty with its result dropped
CreateStep(c, F, d, s) ==
    IF s.update = "" THEN CreateProperty(c, d, s.create, s.val)
    ELSE UpdateProperty(CreateProperty(c, d, s.create, s.val), F, d, s.update)

RECURSIVE CreateSteps(_, _, _, _)
CreateSteps(c, F, d, steps) ==
    IF steps = <<>> THEN c
    ELSE Let(CreateStep(c, F, d, Head(steps)), LAMBDA c1 :
             CreateSteps(c1, F, d, Tail(steps)))

\* the end of CPLogic::Initialize: the shutter's channel property, the
\* shutter closed, and the presets of the mode.  Nothing of what the
\* SetProperty calls return is looked at.
InitializeShutter(c, F, d) ==
    LET dv == c.devs[d]
        none == IF dv.useAs4ChShutter THEN g_4ChannelNone ELSE g_7ChannelNone
    IN  Let(IF dv.useAs4ChShutter \/ dv.useAs7ChShutter
            THEN Let(CreateAndUpdate(c, F, d, g_SetChannelPropertyName, none), LAMBDA a :
                 Let(SetProperty(a, F, d, g_SetChannelPropertyName, none), LAMBDA b :
                     SetOpen(b, F, d, FALSE)))
            ELSE c, LAMBDA c1 :
        IF dv.useAsdiSPIMShutter
        THEN Let(SetProperty(c1, F, d, g_TriggerSourcePropertyName, g_TriggerSourceCode(1)),
                 LAMBDA c2 :
             Let(IF dv.useAs4ChShutter
                 THEN SetProperty(c2, F, d, g_SetCardPresetPropertyName, g_PresetCode(14))
                 ELSE c2, LAMBDA c3 :
             IF dv.useAs7ChShutter
             THEN Let(SetProperty(c3, F, d, g_SetCardPresetPropertyName, g_PresetCode(12)),
                      LAMBDA c4 :
                  Let(SetProperty(c4, F, d, g_PointerPositionPropertyName, 40), LAMBDA c5 :
                  Let(SetProperty(c5, F, d, g_EditCellTypePropertyName, g_IOTypeCode(2)),
                      LAMBDA c6 :
                      SetProperty(c6, F, d, g_EditCellConfigPropertyName, 41))))
             ELSE c3))
        ELSE IF dv.useAs4ChShutter \/ dv.useAs7ChShutter
        THEN IF FirmwareVersionAtLeast(dv, 327)
             THEN SetProperty(c1, F, d, g_SetCardPresetPropertyName, g_PresetCode(36))
             ELSE Let(SetProperty(c1, F, d, g_PointerPositionPropertyName, 10), LAMBDA c2 :
                  Let(SetProperty(c2, F, d, g_EditCellTypePropertyName, g_CellTypeCode(5)),
                      LAMBDA c3 :
                  Let(SetProperty(c3, F, d, g_EditCellInput1PropertyName, 64), LAMBDA c4 :
                      SetProperty(c4, F, d, g_EditCellInput2PropertyName, 8))))
        ELSE c1)

\* Initialize(): the properties are created, initialized_ is set and
\* DEVICE_OK is returned
InitializeOf(c, F, d) ==
    [(IF c.devs[d].kind = CPLogic
      THEN InitializeShutter(CreateSteps(c, F, d, InitializeSteps(c.devs[d])), F, d)
      ELSE IF c.devs[d].kind = CXYStage
      THEN Let([c EXCEPT !.devs[d] = InitializeSequencing(@, c.hw)], LAMBDA c0 :
               CreateSteps(c0, F, d, InitializeSteps(c0.devs[d])))
      ELSE CreateSteps(c, F, d, InitializeSteps(c.devs[d])))
        EXCEPT !.devs[d].initialized = TRUE, !.ret = DEVICE_OK,
               !.devs[d].speedTruth =
                   IF c.devs[d].kind = CXYStage
                   THEN SpeedTruthOf(c.devs[d], c.hw.build[c.devs[d].addr]) ELSE @]

\* Initialize() of peripheral d, against a controller that answers
Initialize(d) ==
    /\ ~devs[d].initialized
    /\ \E c \in {InitializeOf(NewCtx(hw, devs, st), {}, d)} :
           /\ hw' = c.hw
           /\ devs' = c.devs
           /\ st' = c.st
           /\ last' = [NoCall EXCEPT !.dev = d, !.act = "init", !.ev = c.ev,
                                     !.hw0 = hw, !.devs0 = devs, !.st0 = st]
           /\ calls' = calls

-----------------------------------------------------------------------------
(* The controller and the peripherals at start *)

\* the function-local statics of the handlers
NoStatics ==
    [SAMode_justSet |-> FALSE, RBRunning_justSet |-> FALSE,
     OnRBRunning_justSet |-> FALSE, OnPointerPosition_justSet |-> FALSE]

g_StageDefaultUnitMult == 10

\* the peripheral as its constructor leaves it
NewPeripheral(kind, addr, ax, axX, axY, fw) ==
    [kind |-> kind, addr |-> addr, axisLetter |-> ax, axisLetterX |-> axX,
     axisLetterY |-> axY, fw |-> fw, initialized |-> FALSE, refreshProps |-> FALSE,
     advancedPropsEnabled |-> FALSE, gain |-> 0, avg_length |-> 0,
     currentPosition |-> 1, numCells |-> numCells_, editCellUpdates |-> TRUE,
     useAsdiSPIMShutter |-> FALSE, useAs4ChShutter |-> FALSE, useAs7ChShutter |-> FALSE,
     shutterOpen |-> FALSE,
     ring_buffer_supported |-> FALSE, ring_buffer_capacity |-> 0,
     ttl_trigger_supported |-> FALSE, ttl_trigger_enabled |-> FALSE,
     sequenceX |-> <<>>, sequenceY |-> <<>>,
     unitMultX |-> g_StageDefaultUnitMult, unitMultY |-> g_StageDefaultUnitMult,
     speedTruth |-> FALSE, lastSpeedX |-> 1000000, lastSpeedY |-> 1000000,
     refreshOverride |-> FALSE,
     props |-> <<>>]

\* a Z stage and an XY stage on card 1, two PMT channels on card 2, a
\* PLogic card at address 3
Devices == {"zs", "xy", "pm0", "pm1", "pl"}

Peripherals(fwZ, fwPL) ==
    [d \in Devices |->
        CASE d = "zs" -> NewPeripheral(CZStage, "1", "Z", "", "", fwZ)
          [] d = "xy" -> NewPeripheral(CXYStage, "1", "", "X", "Y", 314)
          [] d = "pm0" -> NewPeripheral(CPMT, "2", "P", "", "", 314)
          [] d = "pm1" -> NewPeripheral(CPMT, "2", "Q", "", "", 314)
          [] d = "pl" -> NewPeripheral(CPLogic, "3", "E", "", "", fwPL)]

CellAtStart(p, r) ==
    CASE r = "CCAY" -> IF p = 33 THEN 2 ELSE IF p = 20 THEN 0 ELSE p + 2
      [] r = "CCAZ" -> p + 40
      [] r = "CCBX" -> p + 50
      [] r = "CCBY" -> p + 60
      [] r = "CCBZ" -> p + 70
      [] r = "CCBF" -> p + 80

Hw0 ==
    [SAP |-> [a \in {"Z"} |-> 77], SAM |-> [a \in {"Z"} |-> 2],
     SAF |-> [a \in {"Z"} |-> 10], SAA |-> [a \in {"Z"} |-> 3000],
     SAO |-> [a \in {"Z"} |-> 1000],
     RM |-> [a \in {"1"} |-> 1], RT |-> [a \in {"1"} |-> 5],
     J |-> [a \in {"X", "Y", "Z"} |-> IF a = "X" THEN 2 ELSE IF a = "Y" THEN 3 ELSE 0],
     JSX |-> [a \in {"1"} |-> 100], JSY |-> [a \in {"1"} |-> 10],
     JSF |-> [a \in {"1"} |-> 10], JST |-> [a \in {"1"} |-> 5],
     AA |-> [a \in {"X"} |-> 85], AZ |-> [a \in {"X"} |-> 7],
     WRDAC |-> [a \in {"P", "Q"} |-> 100],
     E |-> [a \in {"P", "Q", "X", "Y"} |-> IF a \in {"P", "Q"} THEN 1 ELSE 0],
     S |-> [a \in {"X", "Y"} |-> 1000000], B |-> [a \in {"X", "Y"} |-> 0],
     PC |-> [a \in {"X", "Y"} |-> 0], VE |-> [a \in {"X", "Y"} |-> 0],
     build |-> [a \in {"1"} |-> {}],
     rbDefine |-> [a \in {"1"} |-> "RING BUFFER 50"],
     vAxesProps |-> [a \in {"1"} |-> BIT1],
     PM |-> [a \in {"E"} |-> 0],
     CCAX |-> [a \in {"3"} |-> 0],
     pos |-> [a \in {"3"} |-> 1],
     cell |-> [a \in {"3"} |-> [p \in PLPositions |-> [r \in CellRegisters |-> CellAtStart(p, r)]]]]

InitWith(h, ds) ==
    /\ hw = h
    /\ devs = ds
    /\ st = NoStatics
    /\ last = NoCall
    /\ calls = 0

-----------------------------------------------------------------------------
(* Specification SpecSA: the single-axis properties of the Z stage *)

SapInit == {77, 178}

SAValues(prop) ==
    CASE prop = g_SAPeriodPropertyName -> {25}
      [] prop = g_SAPatternModePropertyName -> {0, 255}
      [] OTHER -> {}

InitSA ==
    \E s \in SapInit, fw \in {300, 314} :
       InitWith([Hw0 EXCEPT !.SAP["Z"] = s], Peripherals(fw, 351))

SAProps ==
    {g_SAPeriodPropertyName, g_SAModePropertyName, g_SAPatternPropertyName,
     g_AdvancedSAPropertiesPropertyName, g_SAClkSrcPropertyName, g_SAClkPolPropertyName,
     g_SATTLOutPropertyName, g_SATTLPolPropertyName, g_SAPatternModePropertyName,
     g_RefreshPropValsPropertyName}

GetSA == \E p \in SAProps : Get("zs", p, 2)

SetSA ==
    \E p \in SAProps :
       \E v \in AllowedValues(devs["zs"], p) \cup SAValues(p)
                \cup (IF AllowedValues(devs["zs"], p) # {} THEN {BogusValue} ELSE {}) :
          Set("zs", p, v, 3)

InitializeSA == Initialize("zs")

NextSA == InitializeSA \/ GetSA \/ SetSA

SpecSA == InitSA /\ [][NextSA]_vars

-----------------------------------------------------------------------------
(* Events of the last call *)

CmdEvents(ev) == {i \in 1..Len(ev) : ev[i].t = "cmd"}

NoCommands(ev) == CmdEvents(ev) = {}

\* the observable result of a forced-refresh read of property prop of
\* device d against the registers h: the return code and the value cached
ForcedRead(h, ds, s, d, prop) ==
    LET c == GetProperty(NewCtx(h, [ds EXCEPT ![d].refreshProps = TRUE], s), {}, d, prop)
    IN  <<c.ret, c.devs[d].props[prop]>>

-----------------------------------------------------------------------------
(* C2 *)

SABitfieldProps ==
    {g_SAPatternPropertyName, g_SATTLPolPropertyName, g_SATTLOutPropertyName,
     g_SAClkPolPropertyName, g_SAClkSrcPropertyName}

SAFieldMask(prop) ==
    CASE prop = g_SAPatternPropertyName -> BIT2 + BIT1 + BIT0
      [] prop = g_SATTLPolPropertyName -> BIT4
      [] prop = g_SATTLOutPropertyName -> BIT5
      [] prop = g_SAClkPolPropertyName -> BIT6
      [] prop = g_SAClkSrcPropertyName -> BIT7

IsSAPWrite(e) == e.t = "cmd" /\ e.cmd.k = "SAP" /\ ~e.cmd.q
IsSAPQuery(e) == e.t = "cmd" /\ e.cmd.k = "SAP" /\ e.cmd.q /\ e.ok

\* C2: a set of one bitfield property of the SAP register writes back a
\* value that differs from the value just read only in the property's own
\* bits, and a forced-refresh read of every sibling bitfield property gives
\* the same result before and after the set.
C2_BitfieldFrame ==
    (last.act = "set" /\ last.prop \in SABitfieldProps) =>
        /\ \A i \in 1..Len(last.ev) :
              IsSAPWrite(last.ev[i]) =>
                 \E j \in 1..(i - 1) :
                    /\ IsSAPQuery(last.ev[j])
                    /\ \A k \in (j + 1)..(i - 1) : last.ev[k].t # "cmd"
                    /\ BitClear(last.ev[i].cmd.v, SAFieldMask(last.prop))
                          = BitClear(last.ev[j].cmd.v, SAFieldMask(last.prop))
        /\ \A q \in (SABitfieldProps \ {last.prop}) \cap DOMAIN devs[last.dev].props :
              ForcedRead(last.hw0, devs, st, last.dev, q)
                 = ForcedRead(hw, devs, st, last.dev, q)

\* a TTL-polarity set that changed a register holding other fields
C2_Witness ==
    /\ last.act = "set" /\ last.prop = g_SATTLPolPropertyName /\ last.ret = DEVICE_OK
    /\ hw.SAP["Z"] # last.hw0.SAP["Z"]
    /\ BitClear(last.hw0.SAP["Z"], BIT4) # 0

-----------------------------------------------------------------------------
(* Specification SpecCache: reads of the Z stage and the XY stage *)

\* the properties whose read handler has the refresh-avoidance check
CheckedProps ==
    {g_SAAmplitudePropertyName, g_SAOffsetPropertyName, g_SAPeriodPropertyName,
     g_SAModePropertyName, g_SAPatternPropertyName,
     g_RB_ModePropertyName, g_RB_DelayPropertyName, g_RB_AutoplayRunningPropertyName,
     g_JoystickSelectPropertyName, g_JoystickFastSpeedPropertyName,
     g_JoystickSlowSpeedPropertyName, g_JoystickMirrorPropertyName,
     g_WheelFastSpeedPropertyName, g_WheelSlowSpeedPropertyName, g_WheelMirrorPropertyName}

\* the sets that make a cache differ from the controller, switch the
\* refresh flag, or leave a justSet marker behind
CacheSets(d) ==
    IF d = "zs"
    THEN {<<g_RefreshPropValsPropertyName, g_YesState>>,
          <<g_RefreshPropValsPropertyName, g_NoState>>,
          <<g_SAModePropertyName, g_SAMode_1>>,
          <<g_SAPeriodPropertyName, 25>>,
          <<g_RB_AutoplayRunningPropertyName, g_YesState>>,
          <<g_RB_ModePropertyName, g_RB_PlayOnce_2>>,
          <<g_JoystickFastSpeedPropertyName, 50>>}
    ELSE {<<g_RefreshPropValsPropertyName, g_YesState>>,
          <<g_RB_AutoplayRunningPropertyName, g_YesState>>,
          <<g_RB_DelayPropertyName, 9>>,
          <<g_RB_ModePropertyName, g_RB_PlayRepeat_3>>}

InitCache == InitWith(Hw0, Peripherals(314, 351))

InitializeCache == \E d \in {"zs", "xy"} : Initialize(d)

GetCache == \E d \in {"zs", "xy"} : \E p \in CheckedProps : Get(d, p, 2)

SetCache == \E d \in {"zs", "xy"} : \E pv \in CacheSets(d) : Set(d, pv[1], pv[2], 3)

NextCache == InitializeCache \/ GetCache \/ SetCache

SpecCache == InitCache /\ [][NextCache]_vars

-----------------------------------------------------------------------------
(* C1 *)

\* the function-static justSet of the handler of property prop is raised
MarkerPending(s, dv, prop) ==
    CASE prop = g_SAModePropertyName -> s.SAMode_justSet
      [] prop = g_RB_AutoplayRunningPropertyName /\ dv.kind = CZStage -> s.RBRunning_justSet
      [] prop = g_RB_AutoplayRunningPropertyName /\ dv.kind = CXYStage -> s.OnRBRunning_justSet
      [] prop = g_PointerPositionPropertyName -> s.OnPointerPosition_justSet
      [] OTHER -> FALSE

\* the precondition of the refresh-avoidance check, in the state the last
\* call started from
CacheTrusted ==
    /\ last.devs0[last.dev].initialized
    /\ ~last.devs0[last.dev].refreshProps
    /\ ~MarkerPending(last.st0, last.devs0[last.dev], last.prop)

\* C1: a get of a property whose read handler has the refresh-avoidance
\* check, on an initialized peripheral whose refresh flag is false and with
\* no justSet marker pending, issues no wire command, returns DEVICE_OK and
\* leaves the cached value as it was.  The second of two consecutive gets is
\* such a get whenever the precondition holds after the first.
C1_RefreshAvoidance ==
    (last.act = "get" /\ last.prop \in CheckedProps /\ CacheTrusted) =>
        /\ NoCommands(last.ev)
        /\ last.ret = DEVICE_OK
        /\ devs[last.dev].props[last.prop] = last.devs0[last.dev].props[last.prop]
        /\ hw = last.hw0

\* a get of the joystick fast speed answered from a cache that differs from
\* what the controller holds
C1_Witness ==
    /\ last.act = "get" /\ last.dev = "zs" /\ last.prop = g_JoystickFastSpeedPropertyName
    /\ CacheTrusted
    /\ devs["zs"].props[g_JoystickFastSpeedPropertyName] = 50
    /\ ForcedRead(hw, devs, st, "zs", g_JoystickFastSpeedPropertyName) = <<DEVICE_OK, 100>>

-----------------------------------------------------------------------------
(* Specification SpecShared: the card-wide properties of the two stages of
   card 1 *)

SharedProps ==
    {g_RB_ModePropertyName, g_RB_DelayPropertyName, g_RB_TriggerPropertyName,
     g_SaveSettingsPropertyName}

SharedSets(d) ==
    {<<g_RB_ModePropertyName, g_RB_OnePoint_1>>,
     <<g_RB_ModePropertyName, g_RB_PlayOnce_2>>,
     <<g_RB_ModePropertyName, g_RB_PlayRepeat_3>>,
     <<g_RB_TriggerPropertyName, g_DoItState>>,
     <<g_SaveSettingsPropertyName, g_SaveSettingsZ>>,
     <<g_RefreshPropValsPropertyName, g_YesState>>}
    \cup (IF d = "xy"
          THEN {<<g_RB_DelayPropertyName, 9>>,
                <<g_SaveSettingsPropertyName, g_SaveSettingsZJoystick>>}
          ELSE {<<g_SaveSettingsPropertyName, g_SaveSettingsX>>})

InitShared == InitWith(Hw0, Peripherals(314, 351))

InitializeShared == \E d \in {"zs", "xy"} : Initialize(d)

GetShared ==
    \E d \in {"zs", "xy"} :
       \E p \in {g_RB_ModePropertyName, g_RB_DelayPropertyName} : Get(d, p, 2)

SetShared == \E d \in {"zs", "xy"} : \E pv \in SharedSets(d) : Set(d, pv[1], pv[2], 3)

NextShared == InitializeShared \/ GetShared \/ SetShared

SpecShared == InitShared /\ [][NextShared]_vars

-----------------------------------------------------------------------------
(* C3 *)

\* the return event of the handler call entered at event i
IsReturnOf(ev, i, j) ==
    /\ j > i
    /\ ev[j].t = "ret" /\ ev[j].dev = ev[i].dev /\ ev[j].prop = ev[i].prop
    /\ \A k \in (i + 1)..(j - 1) :
          ~(ev[k].t = "ret" /\ ev[k].dev = ev[i].dev /\ ev[k].prop = ev[i].prop)

EntersUnderPropagation(e) == e.t = AfterSet /\ e.upd /\ e.prop \in SharedProps

\* C3: an AfterSet handler of a shared property that is entered while the
\* hub is updating shared properties returns DEVICE_OK, and between its
\* entry and its return there is no wire command and no propagation.
C3_GuardedDuringPropagation ==
    \A i \in 1..Len(last.ev) :
       EntersUnderPropagation(last.ev[i]) =>
          \E j \in (i + 1)..Len(last.ev) :
             /\ IsReturnOf(last.ev, i, j)
             /\ last.ev[j].ok
             /\ \A k \in (i + 1)..(j - 1) : last.ev[k].t \notin {"cmd", "prop"}

\* the Z stage saved the card's settings and the XY stage's handler ran
\* with the value pushed to it
C3_Witness ==
    /\ last.act = "set" /\ last.dev = "zs" /\ last.prop = g_SaveSettingsPropertyName
    /\ last.ret = DEVICE_OK
    /\ \E i \in 1..Len(last.ev) :
          EntersUnderPropagation(last.ev[i]) /\ last.ev[i].dev = "xy"
    /\ devs["xy"].props[g_SaveSettingsPropertyName] = g_SaveSettingsDone

-----------------------------------------------------------------------------
(* C4 *)

\* a get of property prop of peripheral s in the current state
NextGet(s, prop) == GetProperty(NewCtx(hw, devs, st), {}, s, prop)

\* C4: after a set of the ring-buffer mode to V returned DEVICE_OK, a get
\* of the ring-buffer mode on each initialized peripheral of the same card
\* that has the property and whose refresh flag is false issues no wire
\* command and finds V.
C4_SiblingObserves ==
    (last.act = "set" /\ last.prop = g_RB_ModePropertyName /\ last.ret = DEVICE_OK) =>
        \A s \in Siblings(NewCtx(hw, devs, st), last.dev, g_RB_ModePropertyName) :
           ~devs[s].refreshProps =>
              /\ NoCommands(NextGet(s, g_RB_ModePropertyName).ev)
              /\ NextGet(s, g_RB_ModePropertyName).ret = DEVICE_OK
              /\ NextGet(s, g_RB_ModePropertyName).devs[s].props[g_RB_ModePropertyName]
                    = last.val

\* the Z stage changed the mode and the XY stage's cache followed
C4_Witness ==
    /\ last.act = "set" /\ last.dev = "zs" /\ last.prop = g_RB_ModePropertyName
    /\ last.ret = DEVICE_OK
    /\ devs["xy"].initialized /\ ~devs["xy"].refreshProps
    /\ last.devs0["xy"].props[g_RB_ModePropertyName] # last.val
    /\ devs["xy"].props[g_RB_ModePropertyName] = last.val

-----------------------------------------------------------------------------
(* Specification SpecPMT: the two PMT channels of card 2 *)

PMTSets ==
    {<<g_PMTGainPropertyName, 0>>, <<g_PMTGainPropertyName, 500>>,
     <<g_PMTAVGPropertyName, 3>>,
     <<g_RefreshPropValsPropertyName, g_YesState>>,
     <<g_RefreshPropValsPropertyName, g_NoState>>,
     <<g_SaveSettingsPropertyName, g_SaveSettingsX>>,
     <<g_SaveSettingsPropertyName, g_SaveSettingsZ>>}

InitPMT == InitWith(Hw0, Peripherals(314, 351))

PMTInitialize == \E d \in {"pm0", "pm1"} : Initialize(d)

PMTGet ==
    \E d \in {"pm0", "pm1"} :
       \E p \in {g_PMTGainPropertyName, g_PMTAVGPropertyName} : Get(d, p, 2)

PMTSet == \E d \in {"pm0", "pm1"} : \E pv \in PMTSets : Set(d, pv[1], pv[2], 2)

NextPMT == PMTInitialize \/ PMTGet \/ PMTSet

SpecPMT == InitPMT /\ [][NextPMT]_vars

-----------------------------------------------------------------------------
(* C5 *)

\* a wire command or a parse of the last call failed
IsWireFailure(e) == e.t \in {"cmd", "parse"} /\ ~e.ok

ErrorOf(e) == IF e.t = "cmd" THEN ERR_SERIAL ELSE ERR_PARSE

\* C5: when a wire command or a parse fails during a get or a set, the call
\* returns the error of that failure, no wire command follows the failure
\* in the call, and a get leaves the cached value as it was.
C5_FailureAborts ==
    last.act \in {"get", "set"} =>
       \A i \in 1..Len(last.ev) :
          (IsWireFailure(last.ev[i]) /\ \A k \in 1..(i - 1) : ~IsWireFailure(last.ev[k])) =>
             /\ last.ret = ErrorOf(last.ev[i])
             /\ \A k \in (i + 1)..Len(last.ev) : last.ev[k].t # "cmd"
             /\ last.act = "get" =>
                   devs[last.dev].props[last.prop] = last.devs0[last.dev].props[last.prop]

-----------------------------------------------------------------------------
(* C10 *)

\* the propagation of the last call failed after its wire commands succeeded
PropagationFailed ==
    \E i \in 1..Len(last.ev) :
       /\ last.ev[i].t = "prop" /\ ~last.ev[i].ok
       /\ \E k \in 1..(i - 1) : last.ev[k].t = "cmd" /\ last.ev[k].ok
       /\ \A k \in 1..(i - 1) : last.ev[k].t = "cmd" => last.ev[k].ok

\* C10: a set of a shared property whose hardware write succeeded and whose
\* propagation to the siblings failed returns DEVICE_OK.
C10_PropagationFailureIgnored ==
    (last.act = "set" /\ last.prop \in SharedProps /\ PropagationFailed) =>
        last.ret = DEVICE_OK

-----------------------------------------------------------------------------
(* Specification SpecPL: the pointer and the edit-cell properties of the
   PLogic card *)

EditCellProps ==
    {g_EditCellTypePropertyName, g_EditCellConfigPropertyName,
     g_EditCellInput1PropertyName, g_EditCellInput2PropertyName,
     g_EditCellInput3PropertyName, g_EditCellInput4PropertyName}

PLSets ==
    {<<g_PointerPositionPropertyName, p>> : p \in PLPositions}
    \cup {<<g_EditCellUpdateAutomaticallyPropertyName, g_NoState>>,
          <<g_EditCellUpdateAutomaticallyPropertyName, g_YesState>>,
          <<g_RefreshPropValsPropertyName, g_YesState>>,
          <<g_EditCellConfigPropertyName, 9>>,
          <<g_EditCellTypePropertyName, g_CellTypeCode(5)>>,
          <<g_EditCellTypePropertyName, g_IOTypeCode(1)>>}

InitPL == InitWith(Hw0, Peripherals(314, 351))

PLInitialize == Initialize("pl")

PLGet ==
    \E p \in {g_PointerPositionPropertyName, g_EditCellTypePropertyName,
              g_EditCellConfigPropertyName} : Get("pl", p, 2)

PLSet == \E pv \in PLSets : Set("pl", pv[1], pv[2], 4)

NextPL == PLInitialize \/ PLGet \/ PLSet

SpecPL == InitPL /\ [][NextPL]_vars

-----------------------------------------------------------------------------
(* C7 *)

NoWireFailure == \A i \in 1..Len(last.ev) : ~IsWireFailure(last.ev[i])

\* the first wire command of the last call is the positioning command
MoveIsFirst ==
    /\ CmdEvents(last.ev) # {}
    /\ LET i == CHOOSE x \in CmdEvents(last.ev) : \A y \in CmdEvents(last.ev) : x <= y
       IN  last.ev[i].cmd = Write("M", "E", last.val)

MoveSucceeded ==
    \E i \in CmdEvents(last.ev) : last.ev[i].cmd.k = "M" /\ last.ev[i].ok

PositionReRead ==
    \E i \in CmdEvents(last.ev) : last.ev[i].cmd.k = "W" /\ last.ev[i].ok

\* the last call read property q from the controller
Refreshed(q) ==
    \E i \in 1..(Len(last.ev) - 2) :
       /\ last.ev[i].t = BeforeGet /\ last.ev[i].prop = q
       /\ last.ev[i + 1].t = "cmd" /\ last.ev[i + 1].cmd.q /\ last.ev[i + 1].ok
       /\ last.ev[i + 2].t = "parse" /\ last.ev[i + 2].ok

Queried(q) == \E i \in 1..(Len(last.ev) - 1) :
       /\ last.ev[i].t = BeforeGet /\ last.ev[i].prop = q
       /\ last.ev[i + 1].t = "cmd"

\* what is cached for q is what a forced read finds at the pointer
CachedIsFresh(q) == ForcedRead(hw, devs, st, "pl", q) = <<DEVICE_OK, devs["pl"].props[q]>>

PointerSet ==
    /\ last.act = "set" /\ last.prop = g_PointerPositionPropertyName
    /\ last.ev # <<>>

-----------------------------------------------------------------------------
(* Specification SpecEnum: the enumerated properties of the Z stage and of
   the PLogic card *)

\* the properties whose values are mapped to wire codes
EnumProps ==
    {g_SAModePropertyName, g_SAPatternPropertyName, g_RB_ModePropertyName,
     g_JoystickSelectPropertyName, g_TriggerSourcePropertyName}

\* the values the model sets: every allowed value, a value that is no value
\* of the property, and for the joystick input a code the handler knows but
\* the property does not allow
EnumValues(dv, prop) ==
    IF prop = g_EditCellTypePropertyName
    THEN {g_CellTypeCode(0), g_CellTypeCode(18), g_IOTypeCode(0), g_IOTypeCode(2), BogusValue}
    ELSE AllowedValues(dv, prop) \cup {BogusValue}
         \cup (IF prop = g_JoystickSelectPropertyName THEN {g_JSCode_1} ELSE {})
         \cup (IF prop = g_SAPatternPropertyName THEN {g_SAPattern_3} ELSE {})

InitEnum == \E fw \in {300, 314} : InitWith(Hw0, Peripherals(fw, 351))

EnumInitialize == \E d \in {"zs", "pl"} : Initialize(d)

EnumSet ==
    \E d \in {"zs", "pl"} :
       \E p \in EnumProps \cup {g_EditCellTypePropertyName} :
          \E v \in EnumValues(devs[d], p) : Set(d, p, v, 1)

\* the pointer is moved to a cell, between the cells and the I/O, or to an I/O
EnumPointer ==
    \E p \in {2, 20, 33} : Set("pl", g_PointerPositionPropertyName, p, 1)

NextEnum == EnumInitialize \/ EnumSet \/ EnumPointer

SpecEnum == InitEnum /\ [][NextEnum]_vars

-----------------------------------------------------------------------------
(* C6 *)

\* the value of the last set is no allowed value of the property
NotAllowed ==
    /\ AllowedValues(last.devs0[last.dev], last.prop) # {}
    /\ last.val \notin AllowedValues(last.devs0[last.dev], last.prop)

\* the value of the last set is allowed but has no wire code at the address
\* the pointer is at: an I/O type at a cell, a cell type at an I/O
NoCodeHere ==
    /\ last.prop = g_EditCellTypePropertyName
    /\ ~NotAllowed
    /\ LET pos == last.devs0[last.dev].currentPosition
           tmp == PropertyData(last.prop, last.val)
       IN  \/ IsIOAddress(pos) /\ tmp < 100
           \/ pos <= last.devs0[last.dev].numCells /\ tmp >= 100

\* C6: a set of a value that is not among the property's allowed values, or
\* that the handler cannot map to a wire code, returns
\* DEVICE_INVALID_PROPERTY_VALUE without a wire command (the register read of
\* a bitfield property included) and leaves the controller as it was.
C6_RejectedBeforeWire ==
    (last.act = "set" /\ (NotAllowed \/ NoCodeHere)) =>
        /\ last.ret = DEVICE_INVALID_PROPERTY_VALUE
        /\ NoCommands(last.ev)
        /\ hw = last.hw0

\* an I/O type set while the pointer is at a cell: the handler ran and
\* refused
C6_Witness ==
    /\ last.act = "set" /\ last.prop = g_EditCellTypePropertyName
    /\ last.val = g_IOTypeCode(2) /\ last.devs0["pl"].currentPosition = 2
    /\ NoCodeHere
    /\ \E i \in 1..Len(last.ev) : last.ev[i].t = AfterSet
    /\ last.ret = DEVICE_INVALID_PROPERTY_VALUE

-----------------------------------------------------------------------------
(* C9 *)

\* the register an enumerated property is written to
EnumRegister(prop) ==
    CASE prop = g_SAModePropertyName -> "SAM"
      [] prop = g_SAPatternPropertyName -> "SAP"
      [] prop = g_RB_ModePropertyName -> "RMF"
      [] prop = g_JoystickSelectPropertyName -> "J"
      [] prop = g_TriggerSourcePropertyName -> "PM"

\* the wire code of a value of an enumerated property
EnumCode(prop, v) ==
    CASE prop = g_SAModePropertyName -> SAModeToCode(v)
      [] prop = g_SAPatternPropertyName -> SAPatternToCode(v)
      [] prop = g_RB_ModePropertyName -> RBModeToCode(v)
      [] prop = g_JoystickSelectPropertyName -> JSCodeTo(v)
      [] prop = g_TriggerSourcePropertyName -> PropertyData(prop, v)

\* the part of a written register value that is the property's code
EnumField(prop, w) ==
    IF prop = g_SAPatternPropertyName THEN BitAnd(w, BIT2 + BIT1 + BIT0) ELSE w

\* the successful writes of the property's register in the last call
EnumWrites ==
    {i \in CmdEvents(last.ev) :
        /\ last.ev[i].cmd.k = EnumRegister(last.prop)
        /\ ~last.ev[i].cmd.q /\ last.ev[i].ok}

\* C9: after a set of an allowed value of an enumerated property returned
\* DEVICE_OK, exactly one write of the property's register was made, its
\* code is the code of the value set, and a forced-refresh read returns
\* DEVICE_OK with a value whose code is the code written.
C9_EnumRoundTrip ==
    (last.act = "set" /\ last.prop \in EnumProps /\ last.ret = DEVICE_OK) =>
        /\ Cardinality(EnumWrites) = 1
        /\ \A i \in EnumWrites :
              LET w == EnumField(last.prop, last.ev[i].cmd.v)
                  r == ForcedRead(hw, devs, st, last.dev, last.prop)
              IN  /\ EnumCode(last.prop, last.val) = w
                  /\ r[1] = DEVICE_OK
                  /\ EnumCode(last.prop, r[2]) = w
                  /\ r[2] = last.val

\* the joystick input of the Z stage set to a code other than the one the
\* controller held, and read back
C9_Witness ==
    /\ last.act = "set" /\ last.dev = "zs" /\ last.prop = g_JoystickSelectPropertyName
    /\ last.val = g_JSCode_3 /\ last.ret = DEVICE_OK
    /\ last.hw0.J["Z"] # 3 /\ hw.J["Z"] = 3
    /\ ForcedRead(hw, devs, st, "zs", g_JoystickSelectPropertyName) = <<DEVICE_OK, g_JSCode_3>>

-----------------------------------------------------------------------------
(* Specification SpecChan: calls on the two stages of card 1, which share
   the hub's channel and its last-answer buffer *)

ChanSets(d) ==
    IF d = "zs"
    THEN {<<g_RefreshPropValsPropertyName, g_YesState>>,
          <<g_SAPatternPropertyName, g_SAPattern_1>>,
          <<g_JoystickMirrorPropertyName, g_YesState>>,
          <<g_RB_ModePropertyName, g_RB_PlayOnce_2>>}
    ELSE {<<g_RefreshPropValsPropertyName, g_YesState>>,
          <<g_AdvancedPropertiesPropertyName, g_YesState>>,
          <<g_AZeroXPropertyName, 1>>,
          <<g_SaveSettingsPropertyName, g_SaveSettingsZJoystick>>}

ChanGets(d) ==
    IF d = "zs"
    THEN {g_SAPatternPropertyName, g_JoystickFastSpeedPropertyName, g_RB_ModePropertyName}
    ELSE {g_AAlignPropertyName, g_RB_ModePropertyName, g_RB_DelayPropertyName}

InitChan == InitWith(Hw0, Peripherals(314, 351))

ChanInitialize == \E d \in {"zs", "xy"} : Initialize(d)

ChanGet == \E d \in {"zs", "xy"} : \E p \in ChanGets(d) : Get(d, p, 2)

ChanSet == \E d \in {"zs", "xy"} : \E pv \in ChanSets(d) : Set(d, pv[1], pv[2], 3)

NextChan == ChanInitialize \/ ChanGet \/ ChanSet

SpecChan == InitChan /\ [][NextChan]_vars

-----------------------------------------------------------------------------
(* C8 *)

ParseEvents(ev) == {i \in 1..Len(ev) : ev[i].t = "parse"}

-----------------------------------------------------------------------------
(* Specification SpecWheel: the wheel properties of the two stages of card 1 *)

WheelProps ==
    {g_WheelFastSpeedPropertyName, g_WheelSlowSpeedPropertyName, g_WheelMirrorPropertyName}

WheelSets ==
    {<<g_WheelFastSpeedPropertyName, 50>>, <<g_WheelSlowSpeedPropertyName, 3>>,
     <<g_WheelMirrorPropertyName, g_YesState>>, <<g_WheelMirrorPropertyName, g_NoState>>,
     <<g_RefreshPropValsPropertyName, g_YesState>>}

InitWheel == InitWith(Hw0, Peripherals(314, 351))

WheelInitialize == \E d \in {"zs", "xy"} : Initialize(d)

WheelGet == \E d \in {"zs", "xy"} : \E p \in WheelProps : Get(d, p, 2)

WheelSet == \E d \in {"zs", "xy"} : \E pv \in WheelSets : Set(d, pv[1], pv[2], 3)

NextWheel == WheelInitialize \/ WheelGet \/ WheelSet

SpecWheel == InitWheel /\ [][NextWheel]_vars

-----------------------------------------------------------------------------
(* C11 *)

\* the last call handed property prop to the hub's propagation
Propagated(prop) ==
    \E i \in 1..Len(last.ev) : last.ev[i].t = "prop" /\ last.ev[i].prop = prop

\* C11: after a set of WheelFastSpeed, WheelSlowSpeed or WheelReverse to V
\* returned DEVICE_OK, the value was handed to the hub's shared-property
\* propagation, and a get of the property on each initialized peripheral of
\* the same card whose refresh flag is false issues no wire command and
\* finds V.
C11_WheelShared ==
    (last.act = "set" /\ last.prop \in WheelProps /\ last.ret = DEVICE_OK) =>
        /\ Propagated(last.prop)
        /\ \A s \in Siblings(NewCtx(hw, devs, st), last.dev, last.prop) :
              ~devs[s].refreshProps =>
                 /\ NoCommands(NextGet(s, last.prop).ev)
                 /\ NextGet(s, last.prop).devs[s].props[last.prop] = last.val

\* what the code does: the sibling keeps the value it had cached
C11_SiblingKeepsCache ==
    (last.act = "set" /\ last.prop \in WheelProps) =>
        /\ ~Propagated(last.prop)
        /\ \A s \in Siblings(NewCtx(hw, devs, st), last.dev, last.prop) :
              devs[s].props[last.prop] = last.devs0[s].props[last.prop]

-----------------------------------------------------------------------------
(* Specification SpecFw: the PLogic card under three firmware versions *)

FwSets ==
    {<<g_EditCellTypePropertyName, g_CellTypeCode(n)>> : n \in 15..18}
    \cup {<<g_EditCellTypePropertyName, g_IOTypeCode(0)>>,
          <<g_PointerPositionPropertyName, 2>>, <<g_PointerPositionPropertyName, 33>>}

InitFw == \E fw \in {349, 350, 351} : InitWith(Hw0, Peripherals(314, fw))

FwInitialize == Initialize("pl")

FwSet == \E pv \in FwSets : Set("pl", pv[1], pv[2], 2)

FwGet == Get("pl", g_EditCellTypePropertyName, 2)

NextFw == FwInitialize \/ FwSet \/ FwGet

SpecFw == InitFw /\ [][NextFw]_vars

-----------------------------------------------------------------------------
(* C12 *)

\* the handler of the property ran in the last call
HandlerRan == \E i \in 1..Len(last.ev) : last.ev[i].t = AfterSet

\* C12: a set of EditCellType to the code of cell type 16 or 17 reaches the
\* handler exactly when the card's firmware is at least 3.50, and to the
\* code of cell type 18 exactly when it is at least 3.51; otherwise the set
\* returns DEVICE_INVALID_PROPERTY_VALUE without a wire command and leaves
\* the peripheral as it was.  The codes 0..15 reach the handler under every
\* firmware.
C12_FirmwareGatedCellTypes ==
    (last.act = "set" /\ last.dev = "pl" /\ last.prop = g_EditCellTypePropertyName) =>
        LET fw == last.devs0["pl"].fw
            gated == \/ last.val \in {g_CellTypeCode(16), g_CellTypeCode(17)} /\ fw < 350
                     \/ last.val = g_CellTypeCode(18) /\ fw < 351
        IN  IF gated
            THEN /\ last.ret = DEVICE_INVALID_PROPERTY_VALUE
                 /\ ~HandlerRan
                 /\ NoCommands(last.ev)
                 /\ devs = last.devs0 /\ hw = last.hw0
            ELSE /\ HandlerRan
                 /\ devs["pl"].fw = fw

\* firmware 3.50: cell type 17 is written to the cell the pointer is on
C12_Witness ==
    /\ last.act = "set" /\ last.prop = g_EditCellTypePropertyName
    /\ last.devs0["pl"].fw = 350
    /\ last.val = g_CellTypeCode(17)
    /\ last.ret = DEVICE_OK
    /\ ~NoCommands(last.ev)
    /\ devs["pl"].props[g_EditCellTypePropertyName] = g_CellTypeCode(17)

-----------------------------------------------------------------------------
(* C13 *)

RingBufferProps ==
    {g_RB_ModePropertyName, g_RB_DelayPropertyName, g_RB_TriggerPropertyName,
     g_RB_AutoplayRunningPropertyName}

\* C13: the four creation steps of MixinCreateRingBufferProperties register
\* four different names, each step reads back the property it created, and
\* once the host of the mixin is initialized it has the ring-buffer mode,
\* delay, trigger and autoplay properties.
C13_FourRingBufferProperties ==
    devs["zs"].initialized =>
        /\ RingBufferProps \subseteq DOMAIN devs["zs"].props
        /\ \A i, j \in 1..Len(MixinCreateRingBufferProperties) :
              i # j => MixinCreateRingBufferProperties[i].create
                          # MixinCreateRingBufferProperties[j].create
        /\ \A i \in 1..Len(MixinCreateRingBufferProperties) :
              MixinCreateRingBufferProperties[i].update
                 = MixinCreateRingBufferProperties[i].create

\* what the code does: the host of the mixin never has a delay property
C13_NoDelayProperty ==
    g_RB_DelayPropertyName \notin DOMAIN devs["zs"].props

-----------------------------------------------------------------------------
(* Specification SpecCodes: registers that hold codes the handlers do not know *)

\* the controller at start: the single-axis mode, the single-axis pattern
\* register, the ring-buffer mode and the joystick input of the Z axis each
\* hold a code the handlers know or one they do not
HwCodes(sam, sap, rm, j) ==
    [Hw0 EXCEPT !.SAM["Z"] = sam, !.SAP["Z"] = sap, !.RM["1"] = rm, !.J["Z"] = j]

CodeProps ==
    {g_SAModePropertyName, g_SAPatternPropertyName, g_RB_ModePropertyName,
     g_JoystickSelectPropertyName}

InitCodes ==
    \E sam \in {2, 7} : \E sap \in {178, 77} : \E rm \in {131, 132} : \E j \in {2, 9} :
        InitWith(HwCodes(sam, sap, rm, j), Peripherals(314, 351))

CodesInitialize == \E d \in {"zs", "xy"} : Initialize(d)

CodesRefresh == \E d \in {"zs", "xy"} : Set(d, g_RefreshPropValsPropertyName, g_YesState, 1)

CodesSet == Set("zs", g_SAModePropertyName, g_SAMode_1, 1)

CodesGet == \E d \in {"zs", "xy"} : \E p \in CodeProps : Get(d, p, 2)

NextCodes == CodesInitialize \/ CodesRefresh \/ CodesSet \/ CodesGet

SpecCodes == InitCodes /\ [][NextCodes]_vars

-----------------------------------------------------------------------------
(* C14 *)

\* the values the last call parsed out of answers of the controller
ParsedValues ==
    {last.ev[i].cmd.v : i \in {k \in 1..Len(last.ev) : last.ev[k].t = "parse" /\ last.ev[k].ok}}

\* a wire code that is no value of the property
Unrecognized(prop, v) ==
    CASE prop = g_SAModePropertyName -> v \notin 0..3
      [] prop = g_SAPatternPropertyName -> (v % 8) \notin 0..3
      [] prop = g_RB_ModePropertyName -> (IF v >= 128 THEN v - 128 ELSE v) \notin 1..3
      [] prop = g_JoystickSelectPropertyName -> v \notin {0, 1, 2, 3, 22, 23}
      [] OTHER -> FALSE

\* C14: a get that read a wire code that is no value of the property leaves
\* every property of the peripheral as it was; for the ring-buffer mode, the
\* single-axis mode and the single-axis pattern it returns
\* DEVICE_INVALID_PROPERTY_VALUE, for the joystick input DEVICE_OK.
C14_UnknownCodeKeepsValue ==
    (/\ last.act = "get" /\ last.prop \in CodeProps
     /\ \E v \in ParsedValues : Unrecognized(last.prop, v)) =>
        /\ devs[last.dev].props = last.devs0[last.dev].props
        /\ last.ret = IF last.prop = g_JoystickSelectPropertyName
                      THEN DEVICE_OK ELSE DEVICE_INVALID_PROPERTY_VALUE

\* the single-axis mode register holds 7: the get queries it and fails
C14_Witness ==
    /\ last.act = "get" /\ last.prop = g_SAModePropertyName
    /\ 7 \in ParsedValues
    /\ last.ret = DEVICE_INVALID_PROPERTY_VALUE
    /\ devs["zs"].props[g_SAModePropertyName] = g_SAMode_0

-----------------------------------------------------------------------------
(* Specification SpecRM: the ring-buffer mode register under two firmware eras *)

RMProps == {g_RB_ModePropertyName, g_RB_AutoplayRunningPropertyName}

\* both stages of card 1 run firmware 2.88 or 2.89; the mode register holds
\* a mode with or without the "running now" bit
InitRM ==
    \E fw \in {288, 289} : \E rm \in {1, 2, 131, 130} :
        InitWith([Hw0 EXCEPT !.RM["1"] = rm],
                 [Peripherals(fw, 351) EXCEPT !["xy"].fw = fw])

RMInitialize == \E d \in {"zs", "xy"} : Initialize(d)

RMRefresh == \E d \in {"zs", "xy"} : Set(d, g_RefreshPropValsPropertyName, g_YesState, 1)

RMGet == \E d \in {"zs", "xy"} : \E p \in RMProps : Get(d, p, 2)

RMSet ==
    \E d \in {"zs", "xy"} :
       \/ Set(d, g_RB_ModePropertyName, g_RB_PlayRepeat_3, 2)
       \/ Set(d, g_RB_AutoplayRunningPropertyName, g_YesState, 2)

NextRM == RMInitialize \/ RMRefresh \/ RMGet \/ RMSet

SpecRM == InitRM /\ [][NextRM]_vars

-----------------------------------------------------------------------------
(* C17 *)

\* the wire commands of the last call that name the ring-buffer mode
RMEvents == {i \in CmdEvents(last.ev) : last.ev[i].cmd.k \in {"RMF", "RMX"}}

\* C17: every command of a call that names the ring-buffer mode goes to the
\* card of the peripheral with pseudo-axis F when the peripheral's firmware
\* is 2.89 or later and with pseudo-axis X when it is older.  Whatever value
\* v the mode register holds, a forced read of the autoplay-running property
\* gives Yes when v >= 128 and No when v < 128, and a forced read of the
\* mode property gives the mode numbered v - 128 when v >= 128 and the mode
\* numbered v when v < 128 (1 OnePoint, 2 PlayOnce, 3 PlayRepeat).
C17_RingBufferModeDecoding ==
    /\ \A i \in RMEvents :
          /\ last.ev[i].cmd.k = IF last.devs0[last.dev].fw >= 289 THEN "RMF" ELSE "RMX"
          /\ last.ev[i].cmd.ax = last.devs0[last.dev].addr
    /\ \A d \in {"zs", "xy"} :
          devs[d].initialized =>
             LET v == hw.RM[devs[d].addr]
                 m == IF v >= 128 THEN v - 128 ELSE v
                 names == <<g_RB_OnePoint_1, g_RB_PlayOnce_2, g_RB_PlayRepeat_3>>
             IN  /\ m \in 1..3 =>
                       ForcedRead(hw, devs, st, d, g_RB_ModePropertyName)
                          = <<DEVICE_OK, names[m]>>
                 /\ ForcedRead(hw, devs, st, d, g_RB_AutoplayRunningPropertyName)
                       = <<DEVICE_OK, IF v >= 128 THEN g_YesState ELSE g_NoState>>

\* firmware 2.89, the register holds 131: the get of the mode asks
\* "RM F?" and finds PlayRepeat, and the autoplay-running property reads Yes
C17_Witness ==
    /\ last.act = "get" /\ last.prop = g_RB_ModePropertyName /\ last.dev = "zs"
    /\ last.devs0["zs"].fw = 289
    /\ \E i \in RMEvents : last.ev[i].cmd.q /\ last.ev[i].ok /\ last.ev[i].cmd.v = 131
    /\ last.ret = DEVICE_OK
    /\ devs["zs"].props[g_RB_ModePropertyName] = g_RB_PlayRepeat_3
    /\ ForcedRead(hw, devs, st, "zs", g_RB_AutoplayRunningPropertyName)[2] = g_YesState

-----------------------------------------------------------------------------
(* Specification SpecJoy: the joystick of the XY stage *)

JoyProps == {g_JoystickEnabledPropertyName, g_JoystickRotatePropertyName}

\* the joystick input of the X axis at start: none, the X or the Y direction
InitJoy ==
    \E jx \in {0, 2, 3} : InitWith([Hw0 EXCEPT !.J["X"] = jx], Peripherals(314, 351))

JoyInitialize == Initialize("xy")

JoyRefresh ==
    \E v \in {g_NoState, g_YesState} : Set("xy", g_RefreshPropValsPropertyName, v, 1)

JoySet == \E p \in JoyProps : \E v \in {g_NoState, g_YesState} : Set("xy", p, v, 3)

JoyGet == \E p \in JoyProps : Get("xy", p, 2)

NextJoy == JoyInitialize \/ JoyRefresh \/ JoySet \/ JoyGet

SpecJoy == InitJoy /\ [][NextJoy]_vars

-----------------------------------------------------------------------------
(* C18 *)

\* the commands of the last call that are not queries
WriteEvents == {i \in CmdEvents(last.ev) : ~last.ev[i].cmd.q}

\* C18: a set of JoystickEnabled or JoystickRotate on the XY stage with axis
\* letters X and Y sends at most one command that is not a query, and exactly
\* one when it returns DEVICE_OK; that command is "J X=0 Y=0" when
\* JoystickEnabled is No after the call, "J X=3 Y=2" when JoystickEnabled and
\* JoystickRotate are Yes, and "J X=2 Y=3" when JoystickEnabled is Yes and
\* JoystickRotate is No.
C18_JoystickWrites ==
    (last.act = "set" /\ last.dev = "xy" /\ last.prop \in JoyProps) =>
        LET en == devs["xy"].props[g_JoystickEnabledPropertyName]
            rot == devs["xy"].props[g_JoystickRotatePropertyName]
            xy == IF en = g_NoState THEN <<0, 0>>
                  ELSE IF rot = g_YesState THEN <<3, 2>> ELSE <<2, 3>>
        IN  /\ Cardinality(WriteEvents) <= 1
            /\ last.ret = DEVICE_OK => Cardinality(WriteEvents) = 1
            /\ \A i \in WriteEvents :
                  /\ last.ev[i].cmd.k = "JXY"
                  /\ <<last.ev[i].cmd.v, last.ev[i].cmd.v2>> = xy
            /\ last.ret = DEVICE_OK =>
                  <<hw.J["X"], hw.J["Y"]>> = xy

\* JoystickRotate is set to Yes while the joystick is enabled: "J X=3 Y=2"
C18_Witness ==
    /\ last.act = "set" /\ last.prop = g_JoystickRotatePropertyName
    /\ last.val = g_YesState /\ last.ret = DEVICE_OK
    /\ devs["xy"].props[g_JoystickEnabledPropertyName] = g_YesState
    /\ last.hw0.J["X"] = 2
    /\ hw.J["X"] = 3 /\ hw.J["Y"] = 2

-----------------------------------------------------------------------------
(* Specification SpecMarker: two hosts of MixinSingleAxis on card 1 *)

\* the lambda of CreateSingleAxisModeProperty is one function for every
\* host of the mixin, and its static justSet is one variable: st.SAMode_justSet
MarkerHosts == {"zs", "zs2"}

TwoStages ==
    [d \in MarkerHosts |->
        NewPeripheral(CZStage, "1", IF d = "zs" THEN "Z" ELSE "A", "", "", 314)]

TwoStagesHw ==
    [Hw0 EXCEPT !.SAP = [a \in {"Z", "A"} |-> 178], !.SAM = [a \in {"Z", "A"} |-> 2],
                !.SAF = [a \in {"Z", "A"} |-> 10], !.SAA = [a \in {"Z", "A"} |-> 3000],
                !.SAO = [a \in {"Z", "A"} |-> 1000],
                !.J = [a \in {"X", "Y", "Z", "A"} |-> Hw0.J["Z"]]]

InitMarker == InitWith(TwoStagesHw, TwoStages)

MarkerInitialize == \E d \in MarkerHosts : Initialize(d)

MarkerSet ==
    \E d \in MarkerHosts :
       \/ \E v \in {g_SAMode_1, g_SAMode_3} : Set(d, g_SAModePropertyName, v, 1)
       \/ Set(d, g_SAPeriodPropertyName, 20, 1)
       \/ Set(d, g_RefreshPropValsPropertyName, g_YesState, 1)

MarkerGet ==
    \E d \in MarkerHosts :
       \E p \in {g_SAModePropertyName, g_SAPeriodPropertyName} : Get(d, p, 2)

NextMarker == MarkerInitialize \/ MarkerSet \/ MarkerGet

SpecMarker == InitMarker /\ [][NextMarker]_vars

-----------------------------------------------------------------------------
(* C20 *)

\* a get of the single-axis mode of host d would issue a wire command: now,
\* and before the last call
WouldQuery(d) == ~NoCommands(NextGet(d, g_SAModePropertyName).ev)
WouldQueryBefore(d) ==
    ~NoCommands(GetProperty(NewCtx(last.hw0, last.devs0, last.st0), {}, d,
                            g_SAModePropertyName).ev)

\* host d was initialized with its refresh flag off before and after the call
Quiet(d) ==
    /\ last.act # "none"
    /\ last.devs0[d].initialized /\ ~last.devs0[d].refreshProps
    /\ devs[d].initialized /\ ~devs[d].refreshProps

\* C20: for a host of the mixin that is initialized with the refresh flag
\* off.  After a set of its single-axis mode that returned DEVICE_OK the
\* next get of the property issues exactly one command; after a set that
\* failed the next get queries only if it would have before.  A get of the
\* property while the marker is armed issues exactly one query; when it
\* returns DEVICE_OK the next get issues no command, when it fails the next
\* get queries again.  A get while the marker is not armed issues no
\* command.  No other call changes whether the next get of the property
\* queries.
C20_ForcedRefreshMarker ==
    \A d \in MarkerHosts \cap DOMAIN devs :
       Quiet(d) =>
          IF last.dev = d /\ last.prop = g_SAModePropertyName /\ last.act = "set"
          THEN IF last.ret = DEVICE_OK
               THEN Cardinality(CmdEvents(NextGet(d, g_SAModePropertyName).ev)) = 1
               ELSE WouldQuery(d) <=> WouldQueryBefore(d)
          ELSE IF last.dev = d /\ last.prop = g_SAModePropertyName /\ last.act = "get"
          THEN IF WouldQueryBefore(d)
               THEN /\ Cardinality(CmdEvents(last.ev)) = 1
                    /\ \A i \in CmdEvents(last.ev) : last.ev[i].cmd.q
                    /\ WouldQuery(d) <=> (last.ret # DEVICE_OK)
               ELSE NoCommands(last.ev) /\ ~WouldQuery(d)
          ELSE WouldQuery(d) <=> WouldQueryBefore(d)

\* what the code does: the marker is one variable for all hosts; a get of
\* the mode on another host consumes it
C20_MarkerIsShared ==
    \A d \in MarkerHosts : \A e \in MarkerHosts :
       (devs[d].initialized /\ devs[e].initialized
        /\ ~devs[d].refreshProps /\ ~devs[e].refreshProps)
          => (WouldQuery(d) <=> WouldQuery(e))

-----------------------------------------------------------------------------
(* The XY stage's motor speed, with and without speed truth *)

SpeedProps == {g_MotorSpeedXPropertyName, g_MotorSpeedYPropertyName}

SpeedGets ==
    SpeedProps \cup {g_MotorSpeedXMicronsPerSecPropertyName, g_VectorXPropertyName}

\* 1.5 mm/s is a speed the controller can run at, 1.2 mm/s is not
SpeedSets ==
    {<<g_MotorSpeedXPropertyName, 1500000>>, <<g_MotorSpeedXPropertyName, 1200000>>,
     <<g_MotorSpeedYPropertyName, 1200000>>, <<g_VectorXPropertyName, 500000>>}

BuildDefines == {"SPEED TRUTH", "SPEED UNTRUTH"}

InitSpeed ==
    \E fw \in {326, 327} : \E b \in SUBSET BuildDefines :
        InitWith([Hw0 EXCEPT !.build["1"] = b],
                 [Peripherals(314, 351) EXCEPT !["xy"].fw = fw])

SpeedInitialize == Initialize("xy")

SpeedRefresh ==
    \E v \in {g_NoState, g_YesState} : Set("xy", g_RefreshPropValsPropertyName, v, 1)

SpeedSet == \E pv \in SpeedSets : Set("xy", pv[1], pv[2], 2)

SpeedGet == \E p \in SpeedGets : Get("xy", p, 1)

NextSpeed == SpeedInitialize \/ SpeedRefresh \/ SpeedSet \/ SpeedGet

SpecSpeed == InitSpeed /\ [][NextSpeed]_vars

-----------------------------------------------------------------------------
(* C16 *)

\* C16: once the XY stage is initialized its speed-truth flag is, for firmware
\* 3.27 or later, on exactly when the build of its card lacks the define
\* "SPEED UNTRUTH", and for older firmware on exactly when the build has the
\* define "SPEED TRUTH"; no later call changes it.
C16_SpeedTruthRules ==
    devs["xy"].initialized =>
        devs["xy"].speedTruth =
            IF devs["xy"].fw >= 327
            THEN "SPEED UNTRUTH" \notin hw.build[devs["xy"].addr]
            ELSE "SPEED TRUTH" \in hw.build[devs["xy"].addr]

\* an old firmware whose build has neither define: speed truth is off, where
\* the rule of the newer firmware would turn it on
C16_Witness ==
    /\ last.act = "init" /\ last.dev = "xy" /\ last.ret = DEVICE_OK
    /\ devs["xy"].initialized
    /\ devs["xy"].fw = 326
    /\ hw.build[devs["xy"].addr] = {}
    /\ ~devs["xy"].speedTruth

-----------------------------------------------------------------------------
(* C15 *)

\* the axis letter of a motor speed property
SpeedAxis(prop) ==
    IF prop = g_MotorSpeedXPropertyName THEN devs["xy"].axisLetterX
    ELSE devs["xy"].axisLetterY

\* the cached last speed of that axis
LastSpeedOf(prop) ==
    IF prop = g_MotorSpeedXPropertyName THEN devs["xy"].lastSpeedX
    ELSE devs["xy"].lastSpeedY

\* the commands of the last call, in order
SpeedCommands == SelectSeq(last.ev, LAMBDA e : e.t = "cmd")

\* C15: a set of a motor speed of the XY stage that returns DEVICE_OK sends,
\* with speed truth on, the write of the speed and then exactly one query of
\* it, whatever the refresh flag, and leaves the value the controller reported
\* in the property and in the cached last speed; with speed truth off it sends
\* the write and nothing else and leaves the requested value in the cached
\* last speed.  No call, successful or not, returns with the forced-refresh
\* override set.
C15_SpeedTruth ==
    /\ "xy" \in DOMAIN devs => ~devs["xy"].refreshOverride
    /\ (last.act = "set" /\ last.dev = "xy" /\ last.prop \in SpeedProps
            /\ last.ret = DEVICE_OK) =>
         LET ax == SpeedAxis(last.prop)
             cmds == SpeedCommands
         IN  /\ Len(cmds) >= 1
             /\ cmds[1].cmd.k = "S" /\ cmds[1].cmd.ax = ax /\ ~cmds[1].cmd.q
             /\ cmds[1].cmd.v = last.val
             /\ IF last.devs0["xy"].speedTruth
                THEN /\ Len(cmds) = 2
                     /\ cmds[2].cmd.k = "S" /\ cmds[2].cmd.ax = ax /\ cmds[2].cmd.q
                     /\ devs["xy"].props[last.prop] = cmds[2].cmd.v
                     /\ devs["xy"].props[last.prop] = hw.S[ax]
                     /\ LastSpeedOf(last.prop) = hw.S[ax]
                ELSE /\ Len(cmds) = 1
                     /\ LastSpeedOf(last.prop) = last.val
             /\ devs["xy"].props[IF last.prop = g_MotorSpeedXPropertyName
                                 THEN g_MotorSpeedXMicronsPerSecPropertyName
                                 ELSE g_MotorSpeedYMicronsPerSecPropertyName]
                    = LastSpeedOf(last.prop) * 1000

\* speed truth on and the refresh flag off: 1.2 mm/s is requested, the
\* controller runs at 1 mm/s and says so, and the property shows 1 mm/s
C15_Witness ==
    /\ last.act = "set" /\ last.dev = "xy" /\ last.prop = g_MotorSpeedXPropertyName
    /\ last.ret = DEVICE_OK
    /\ last.val = 1200000
    /\ last.devs0["xy"].speedTruth
    /\ ~last.devs0["xy"].refreshProps
    /\ Len(SpeedCommands) = 2
    /\ devs["xy"].props[g_MotorSpeedXPropertyName] = 1000000
    /\ devs["xy"].lastSpeedX = 1000000

-----------------------------------------------------------------------------
(* The numeric properties with a unit factor *)

SAUnitProps == {g_SAAmplitudePropertyName, g_SAOffsetPropertyName}

XYUnitProps ==
    {g_BacklashXPropertyName, g_BacklashYPropertyName, g_DriftErrorXPropertyName,
     g_DriftErrorYPropertyName, g_FinishErrorXPropertyName, g_FinishErrorYPropertyName}

UnitProps == SAUnitProps \cup XYUnitProps

\* values of six and seven significant digits; those of the XY stage are
\* 123.456 and 1234.567 micrometres
UnitValues(d) ==
    IF d = "zs" THEN {123456, 1234567} ELSE {123456000, 1234567000}

UnitPropsOf(d) == IF d = "zs" THEN SAUnitProps ELSE XYUnitProps

InitUnits == InitWith(Hw0, Peripherals(314, 351))

UnitsInitialize == \E d \in {"zs", "xy"} : Initialize(d)

UnitsRefresh ==
    \E d \in {"zs", "xy"} : Set(d, g_RefreshPropValsPropertyName, g_YesState, 1)

UnitsSet ==
    \E d \in {"zs", "xy"} : \E p \in UnitPropsOf(d) : \E v \in UnitValues(d) :
        Set(d, p, v, 1)

UnitsGet == \E d \in {"zs", "xy"} : \E p \in UnitPropsOf(d) : Get(d, p, 1)

NextUnits == UnitsInitialize \/ UnitsRefresh \/ UnitsSet \/ UnitsGet

SpecUnits == InitUnits /\ [][NextUnits]_vars

-----------------------------------------------------------------------------
(* C19 *)

RECURSIVE Digits(_)
\* the number of decimal digits of n
Digits(n) == IF Abs(n) < 10 THEN 1 ELSE 1 + Digits(Abs(n) \div 10)

RECURSIVE SignificantDigits(_)
\* the number of decimal digits of n without its trailing zeros
SignificantDigits(n) ==
    IF n = 0 THEN 0
    ELSE IF n % 10 = 0 THEN SignificantDigits(n \div 10) ELSE Digits(n)

\* the last call was a successful set of a property with a unit factor
UnitSetDone == last.act = "set" /\ last.prop \in UnitProps /\ last.ret = DEVICE_OK

\* what a forced-refresh get of that property would now return
UnitReadBack == ForcedRead(hw, devs, st, last.dev, last.prop)

\* C19 as stated: after a successful set(v) of single-axis amplitude or
\* offset, backlash, drift error or finish error, a forced-refresh get
\* returns v.
C19_ExactRoundTrip ==
    UnitSetDone => UnitReadBack = <<DEVICE_OK, last.val>>

\* C19, amended: after a successful set(v) of single-axis amplitude or
\* offset, backlash, drift error or finish error, a forced-refresh get
\* succeeds and returns v when v has at most six significant digits;
\* otherwise it returns a value of at most six significant digits that
\* differs from v by at most half a unit of v's sixth digit.
C19_RoundTripSixDigits ==
    UnitSetDone =>
        LET v == last.val
            r == UnitReadBack
        IN  /\ r[1] = DEVICE_OK
            /\ SignificantDigits(v) <= 6 => r[2] = v
            /\ SignificantDigits(r[2]) <= 6
            /\ Digits(v) > 6 => 2 * Abs(r[2] - v) <= 10 ^ (Digits(v) - 6)
            /\ devs[last.dev].props[last.prop] = v

\* a backlash of 123.456 micrometres goes out as 0.123456 millimetres and
\* reads back as 123.456 micrometres
C19_Witness ==
    /\ UnitSetDone
    /\ last.dev = "xy" /\ last.prop = g_BacklashXPropertyName
    /\ last.val = 123456000
    /\ hw.B["X"] = 123456
    /\ UnitReadBack = <<DEVICE_OK, 123456000>>

-----------------------------------------------------------------------------
(* C21 *)

\* C21: a call made on one host of the mixin leaves alone whether the next
\* get of the single-axis mode on a different host, initialized and with its
\* refresh flag off, issues a wire command: a set on the one never makes the
\* other query, and a get on the one never cancels the re-read the other
\* has pending.
C21_MarkerPerInstance ==
    \A d \in MarkerHosts \cap DOMAIN devs :
       (Quiet(d) /\ last.dev # d) => (WouldQuery(d) <=> WouldQueryBefore(d))

-----------------------------------------------------------------------------
(* C22 *)

ReadBackProps == {g_SAModePropertyName, g_RB_AutoplayRunningPropertyName}

\* the value of a read-back property that the controller's register stands for
HardwareValue(d, prop) ==
    IF prop = g_SAModePropertyName
    THEN SAModeOfCode(hw.SAM[devs[d].axisLetter])
    ELSE IF hw.RM[devs[d].addr] >= 128 THEN g_YesState ELSE g_NoState

\* C22: a set of the single-axis mode or of the ring-buffer autoplay-running
\* property that returns DEVICE_OK has issued a successful query before it
\* returned, leaves no re-read pending, and leaves in the cache the value the
\* controller holds.
C22_ReadBackInSet ==
    (last.act = "set" /\ last.prop \in ReadBackProps /\ last.ret = DEVICE_OK) =>
        /\ \E i \in CmdEvents(last.ev) : last.ev[i].cmd.q /\ last.ev[i].ok
        /\ ~MarkerPending(st, devs[last.dev], last.prop)
        /\ devs[last.dev].props[last.prop] = HardwareValue(last.dev, last.prop)

\* what the code does: the handler of the XY stage reads back inside the
\* set; the handlers of the mixins only raise the marker, and the read-back
\* waits for the next get
C22_ReadBackDeferredInMixins ==
    (last.act = "set" /\ last.prop \in ReadBackProps /\ last.ret = DEVICE_OK) =>
        IF devs[last.dev].kind = CXYStage
        THEN /\ \E i \in CmdEvents(last.ev) : last.ev[i].cmd.q /\ last.ev[i].ok
             /\ ~MarkerPending(st, devs[last.dev], last.prop)
             /\ devs[last.dev].props[last.prop] = HardwareValue(last.dev, last.prop)
        ELSE /\ \A i \in CmdEvents(last.ev) : ~last.ev[i].cmd.q
             /\ MarkerPending(st, devs[last.dev], last.prop)
             /\ devs[last.dev].props[last.prop] = last.val

-----------------------------------------------------------------------------
(* C28 *)

SAAdvancedProps ==
    {g_SAClkSrcPropertyName, g_SAClkPolPropertyName, g_SATTLOutPropertyName,
     g_SATTLPolPropertyName, g_SAPatternModePropertyName}

\* C28: a set of the single-axis AdvancedProperties property registers
\* properties only when the value is Yes and the advanced properties do
\* not exist yet: a set to No, or a set to Yes after they exist, leaves
\* the peripheral's property names as they were.
C28_RegisteredOnlyOnFirstYes ==
    (last.act = "set" /\ last.prop = g_AdvancedSAPropertiesPropertyName) =>
        LET before == DOMAIN last.devs0[last.dev].props
            after == DOMAIN devs[last.dev].props
        IN  IF last.val = g_YesState /\ SAAdvancedProps \cap before = {}
            THEN after \subseteq before \cup SAAdvancedProps
            ELSE after = before

\* what the code does: every accepted set, of No as of Yes, leaves the
\* five advanced properties registered
C28_RegisteredOnEverySet ==
    (last.act = "set" /\ last.prop = g_AdvancedSAPropertiesPropertyName
       /\ last.val \in {g_NoState, g_YesState}) =>
        DOMAIN devs[last.dev].props = DOMAIN last.devs0[last.dev].props \cup SAAdvancedProps

-----------------------------------------------------------------------------
(* C24 *)

\* the value a bitfield property shows for the register value w
SAFieldValue(prop, w) ==
    CASE prop = g_SAPatternPropertyName -> SAPatternOfCode(BitAnd(w, BIT2 + BIT1 + BIT0))
      [] prop = g_SATTLPolPropertyName -> IF BitAnd(w, BIT4) = 0 THEN g_SATTLPol_0 ELSE g_SATTLPol_1
      [] prop = g_SATTLOutPropertyName -> IF BitAnd(w, BIT5) = 0 THEN g_SATTLOut_0 ELSE g_SATTLOut_1
      [] prop = g_SAClkPolPropertyName -> IF BitAnd(w, BIT6) = 0 THEN g_SAClkPol_0 ELSE g_SAClkPol_1
      [] prop = g_SAClkSrcPropertyName -> IF BitAnd(w, BIT7) = 0 THEN g_SAClkSrc_0 ELSE g_SAClkSrc_1

SACoherent(h, ds, d, prop) ==
    ds[d].props[prop] = SAFieldValue(prop, h.SAP[ds[d].axisLetter])

\* C24: with the refresh flag off, a successful set of a single-axis
\* property leaves every bitfield property whose cached value agreed with
\* the SAP register before the set, and every bitfield property the set
\* created, in agreement with the register after it.
C24_BitfieldCachesFollowRegister ==
    (/\ last.act = "set" /\ last.dev = "zs" /\ last.ret = DEVICE_OK
     /\ last.prop \in SAProps \ {g_RefreshPropValsPropertyName}
     /\ ~devs["zs"].refreshProps) =>
        \A q \in SABitfieldProps \cap DOMAIN devs["zs"].props :
           (q \in DOMAIN last.devs0["zs"].props => SACoherent(last.hw0, last.devs0, "zs", q))
              => SACoherent(hw, devs, "zs", q)

-----------------------------------------------------------------------------
(* Specification SpecAdv: the advanced properties of the PLogic card and of
   the XY stage *)

AdvFirmware == {340, 350, 351}

InitAdv == \E fw \in AdvFirmware : InitWith(Hw0, Peripherals(314, fw))

AdvCreateSets ==
    {<<d, g_AdvancedPropertiesPropertyName, v>> : d \in {"pl", "xy"}, v \in {g_NoState, g_YesState}}

AdvSets ==
    {<<"pl", g_RefreshPropValsPropertyName, g_YesState>>,
     <<"pl", g_PointerPositionPropertyName, 2>>,
     <<"pl", g_EditCellTypePropertyName, g_CellTypeCode(18)>>,
     <<"pl", GetCellPropertyName(1, "_CellType"), g_CellTypeCode(5)>>,
     <<"pl", GetCellPropertyName(2, "_CellType"), g_CellTypeCode(18)>>,
     <<"pl", GetCellPropertyName(2, "_Config"), 9>>,
     <<"pl", GetIOPropertyName(33, "_IOType"), g_IOTypeCode(1)>>}

AdvGets ==
    {<<"pl", g_PointerPositionPropertyName>>,
     <<"pl", GetCellPropertyName(1, "_CellType")>>,
     <<"pl", GetIOPropertyName(33, "_IOType")>>,
     <<"xy", g_AAlignPropertyName>>}

AdvInitialize == \E d \in {"pl", "xy"} : Initialize(d)

AdvCreate == \E s \in AdvCreateSets : Set(s[1], s[2], s[3], 3)

AdvSet == \E s \in AdvSets : Set(s[1], s[2], s[3], 3)

AdvGet == \E g \in AdvGets : Get(g[1], g[2], 1)

NextAdv == AdvInitialize \/ AdvCreate \/ AdvSet \/ AdvGet

SpecAdv == InitAdv /\ [][NextAdv]_vars

-----------------------------------------------------------------------------
(* C23 *)

\* C23: once the PLogic card is initialized, after every call that
\* returned DEVICE_OK the cached PointerPosition value is the pointer
\* address the driver tracks in currentPosition_.
C23_PointerCacheIsPosition ==
    (devs["pl"].initialized /\ last.ret = DEVICE_OK) =>
        devs["pl"].props[g_PointerPositionPropertyName] = devs["pl"].currentPosition

\* what the code does: the two agree after every successful call on the
\* pointer property itself
C23_PointerCacheAfterPointerCall ==
    (/\ devs["pl"].initialized /\ last.ret = DEVICE_OK /\ last.dev = "pl"
     /\ last.prop = g_PointerPositionPropertyName /\ last.act \in {"get", "set"}
     /\ (last.act = "get" => devs["pl"].refreshProps)) =>
        devs["pl"].props[g_PointerPositionPropertyName] = devs["pl"].currentPosition

-----------------------------------------------------------------------------
(* C25 *)

PLTypeProps ==
    {g_EditCellTypePropertyName} \cup CellPropertyNames("_CellType")
    \cup IOPropertyNames("_IOType")

\* the acknowledged writes of the type register in the last call
TypeWrites ==
    {i \in CmdEvents(last.ev) :
        last.ev[i].cmd.k = "CCAY" /\ ~last.ev[i].cmd.q /\ last.ev[i].ok}

\* C25: after a set of a PLogic type property returned DEVICE_OK and wrote
\* the type register, a forced-refresh read of the same property returns
\* DEVICE_OK with the value that was set, and an I/O type was written as
\* 0, 1 or 2.
C25_TypeCodeRoundTrip ==
    (/\ last.act = "set" /\ last.dev = "pl" /\ last.prop \in PLTypeProps
     /\ last.ret = DEVICE_OK /\ TypeWrites # {}) =>
        /\ ForcedRead(hw, devs, st, "pl", last.prop) = <<DEVICE_OK, last.val>>
        /\ \A i \in TypeWrites :
              last.val \in {g_IOTypeCode(n) : n \in 0..2} => last.ev[i].cmd.v \in 0..2

\* what the code does: EditCellType and the per-cell properties write the
\* code their read path maps back; the per-I/O property writes 100 more
\* than the code its read path knows
C25_TypeCodeWritten ==
    (/\ last.act = "set" /\ last.dev = "pl" /\ last.prop \in PLTypeProps
     /\ last.ret = DEVICE_OK /\ TypeWrites # {}) =>
        IF last.prop \in IOPropertyNames("_IOType")
        THEN /\ \A i \in TypeWrites : last.ev[i].cmd.v \in 100..102
             /\ ForcedRead(hw, devs, st, "pl", last.prop)[1] = DEVICE_INVALID_PROPERTY_VALUE
        ELSE ForcedRead(hw, devs, st, "pl", last.prop) = <<DEVICE_OK, last.val>>

-----------------------------------------------------------------------------
(* C30 *)

\* the cell types a property accepts
CellTypesAccepted(dv, prop) ==
    {n \in 0..18 : g_CellTypeCode(n) \in AllowedValues(dv, prop)}

\* the cell-type codes the read path of OnCellType decodes at a cell
CellTypesDecoded(h, ds, s) ==
    {n \in 0..20 :
        LET h1 == [h EXCEPT !.cell[ds["pl"].addr][1]["CCAY"] = n]
        IN  ForcedRead(h1, ds, s, "pl", GetCellPropertyName(1, "_CellType"))
               = <<DEVICE_OK, g_CellTypeCode(n)>>}

AdvancedCreated == GetCellPropertyName(1, "_CellType") \in DOMAIN devs["pl"].props

\* C30: once the per-cell properties exist, each accepts the cell types
\* EditCellType accepts, and every code the read path decodes is among
\* them.
C30_CellTypeSetsAgree ==
    (devs["pl"].initialized /\ AdvancedCreated) =>
        \A p \in CellPropertyNames("_CellType") \cap DOMAIN devs["pl"].props :
           /\ CellTypesAccepted(devs["pl"], p)
                 = CellTypesAccepted(devs["pl"], g_EditCellTypePropertyName)
           /\ CellTypesDecoded(hw, devs, st) \subseteq CellTypesAccepted(devs["pl"], p)

\* what the code does: the per-cell properties accept the types
\* EditCellType accepts except the type of code 18, and the read path
\* decodes the codes 0 to 18 whatever the firmware
C30_CellTypeSetsOfTheCode ==
    (devs["pl"].initialized /\ AdvancedCreated) =>
        \A p \in CellPropertyNames("_CellType") \cap DOMAIN devs["pl"].props :
           /\ CellTypesAccepted(devs["pl"], p)
                 = CellTypesAccepted(devs["pl"], g_EditCellTypePropertyName) \ {18}
           /\ CellTypesDecoded(hw, devs, st) = 0..18

-----------------------------------------------------------------------------
(* C26 *)

\* the first wire command of the last call is the write of code v to the
\* type register
FirstCommandWritesType(v) ==
    /\ CmdEvents(last.ev) # {}
    /\ LET i == CHOOSE k \in CmdEvents(last.ev) : \A j \in CmdEvents(last.ev) : k <= j
       IN  /\ last.ev[i].cmd.k = "CCAY" /\ ~last.ev[i].cmd.q
           /\ last.ev[i].cmd.v = v

\* C26: a set of an allowed value of EditCellType is checked against the
\* address the pointer is at before anything is sent.  At a physical I/O
\* an I/O type is written as its number less 100 and a cell type is
\* refused; at a cell a cell type is written as its number and an I/O
\* type is refused; a refusal returns DEVICE_INVALID_PROPERTY_VALUE with
\* no command; at any other address the set returns DEVICE_OK with no
\* command.
C26_TypeCheckedByAddress ==
    (/\ last.act = "set" /\ last.dev = "pl" /\ last.prop = g_EditCellTypePropertyName
     /\ last.val \in AllowedValues(last.devs0["pl"], g_EditCellTypePropertyName)) =>
        LET pos == last.devs0["pl"].currentPosition
            tmp == PropertyData(g_EditCellTypePropertyName, last.val)
        IN  IF IsPhysicalIOAddress(pos)
            THEN IF tmp >= 100 THEN FirstCommandWritesType(tmp - 100)
                 ELSE last.ret = DEVICE_INVALID_PROPERTY_VALUE /\ NoCommands(last.ev)
            ELSE IF pos <= last.devs0["pl"].numCells
            THEN IF tmp < 100 THEN FirstCommandWritesType(tmp)
                 ELSE last.ret = DEVICE_INVALID_PROPERTY_VALUE /\ NoCommands(last.ev)
            ELSE last.ret = DEVICE_OK /\ NoCommands(last.ev) /\ hw = last.hw0

\* an I/O type set with the pointer at a front-panel I/O: the register of
\* the I/O holds the type's code, below 100
C26_Witness ==
    /\ last.act = "set" /\ last.dev = "pl" /\ last.prop = g_EditCellTypePropertyName
    /\ last.val = g_IOTypeCode(1) /\ last.ret = DEVICE_OK
    /\ last.devs0["pl"].currentPosition = 33
    /\ last.hw0.cell["3"][33]["CCAY"] = 2
    /\ hw.cell["3"][33]["CCAY"] = 1

-----------------------------------------------------------------------------
(* C27 *)

AdvancedHosts == {"pl", "xy"}

\* the last call was the set of AdvancedProperties that creates: the first
\* set to Yes
CreatingSet ==
    /\ last.act = "set" /\ last.dev \in AdvancedHosts
    /\ last.prop = g_AdvancedPropertiesPropertyName
    /\ last.val = g_YesState /\ ~last.devs0[last.dev].advancedPropsEnabled

NewProperties == DOMAIN devs[last.dev].props \ DOMAIN last.devs0[last.dev].props

\* the new properties whose read path ran in the last call
ReadAtCreation ==
    {p \in NewProperties :
        \E i \in 1..Len(last.ev) : last.ev[i].t = BeforeGet /\ last.ev[i].prop = p}

-----------------------------------------------------------------------------
(* C29 *)

\* the refresh property of the PLogic card was set inside the last call
RefreshForcedInCall ==
    \E i \in 1..Len(last.ev) :
       /\ last.ev[i].t = AfterSet /\ last.ev[i].dev = "pl"
       /\ last.ev[i].prop = g_RefreshPropValsPropertyName

\* C29: a call on the PLogic card that is not a call on the refresh
\* property itself, and in which the refresh flag was forced on
\* (RefreshEditCellPropertyValues, RefreshAdvancedCellPropertyValues or
\* OnAdvancedProperties ran), returns with the refresh flag and the
\* refresh property as they were when it began, whether or not the reads
\* made in between failed; and Initialize leaves the flag off.
C29_RefreshFlagRestored ==
    /\ (/\ last.act \in {"get", "set"} /\ last.dev = "pl"
        /\ last.prop # g_RefreshPropValsPropertyName /\ RefreshForcedInCall) =>
           /\ devs["pl"].refreshProps = last.devs0["pl"].refreshProps
           /\ devs["pl"].props[g_RefreshPropValsPropertyName]
                 = last.devs0["pl"].props[g_RefreshPropValsPropertyName]
           /\ devs["pl"].refreshProps
                 = (devs["pl"].props[g_RefreshPropValsPropertyName] = g_YesState)
    /\ (last.act = "init" /\ last.dev = "pl") =>
           /\ ~devs["pl"].refreshProps
           /\ devs["pl"].props[g_RefreshPropValsPropertyName] = g_NoState

\* a per-cell type set with the refresh flag off: the cell's inputs were
\* re-read under the forced flag, one of the reads failed, and the flag
\* is off again
C29_Witness ==
    /\ last.act = "set" /\ last.dev = "pl"
    /\ last.prop = GetCellPropertyName(1, "_CellType") /\ last.ret = DEVICE_OK
    /\ ~last.devs0["pl"].refreshProps
    /\ RefreshForcedInCall
    /\ \E i \in CmdEvents(last.ev) : last.ev[i].cmd.q /\ last.ev[i].ok
    /\ ~NoWireFailure
    /\ ~devs["pl"].refreshProps

-----------------------------------------------------------------------------
(* Specification SpecShutter: the PLogic card used as a shutter *)

ShutterModes ==
    {g_PLogicModeNone, g_PLogicMode4ChShutter, g_PLogicMode7ChShutter,
     g_PLogicModediSPIMShutter}

\* the mode is a pre-init property: it is chosen before Initialize
InitShutter ==
    \E m \in ShutterModes :
        InitWith(Hw0, [Peripherals(314, 351) EXCEPT !["pl"] = OnPLogicMode(@, m)])

ShutterPresets == {g_PresetCodeNone, g_PresetCode(11), g_PresetCode(14)}

ShInitialize == Initialize("pl")

\* the core's SetOpen(open) on the shutter
ShSetOpen ==
    /\ calls < MaxCalls
    /\ devs["pl"].initialized
    /\ \E open \in BOOLEAN : \E F \in FailSets(1) :
          \E c \in {SetOpen(NewCtx(hw, devs, st), F, "pl", open)} :
              Reached(c, F) /\ Commit(c, "pl", "", "setopen", open)

ShSetPreset == \E v \in ShutterPresets : Set("pl", g_SetCardPresetPropertyName, v, 2)

ShGetPreset == Get("pl", g_SetCardPresetPropertyName, 1)

NextShutter == ShInitialize \/ ShSetOpen \/ ShSetPreset \/ ShGetPreset

SpecShutter == InitShutter /\ [][NextShutter]_vars

ShutterMode(dv) == dv.useAs4ChShutter \/ dv.useAs7ChShutter

\* the wire commands of the last call that were not acknowledged
FailedCommands == {i \in DOMAIN last.ev : last.ev[i].t = "cmd" /\ ~last.ev[i].ok}

WireCommands == {i \in DOMAIN last.ev : last.ev[i].t = "cmd"}

\* C31: in a shutter mode, a SetOpen whose preset command fails returns an
\* error and leaves the state GetOpen reports as it was; outside shutter
\* mode SetOpen sends no command and GetOpen reports false
C31_FailedPresetKeepsOpenState ==
    last.act = "setopen" =>
        IF ShutterMode(devs["pl"])
        THEN FailedCommands # {} =>
                /\ last.ret # DEVICE_OK
                /\ GetOpen(devs["pl"]) = GetOpen(last.devs0["pl"])
        ELSE WireCommands = {} /\ ~GetOpen(devs["pl"])

\* what the code does: in a shutter mode GetOpen reports what the last
\* SetOpen asked for, acknowledged or not, and SetOpen returns DEVICE_OK
C31_OpenStateIsTheRequest ==
    last.act = "setopen" =>
        /\ last.ret = DEVICE_OK
        /\ IF ShutterMode(devs["pl"])
           THEN GetOpen(devs["pl"]) = last.val /\ Cardinality(WireCommands) = 1
           ELSE WireCommands = {} /\ ~GetOpen(devs["pl"])

-----------------------------------------------------------------------------
(* Specification SpecSave: the save-settings property of the cards *)

SaveDevices == {"xy", "pm0", "pl"}

SaveChoices ==
    {g_SaveSettingsX, g_SaveSettingsY, g_SaveSettingsZ, g_SaveSettingsOrig,
     g_SaveSettingsDone}

InitSave == InitWith(Hw0, Peripherals(314, 351))

SaveInitialize == \E d \in SaveDevices : Initialize(d)

SaveSet ==
    \E d \in SaveDevices : \E v \in SaveChoices : Set(d, g_SaveSettingsPropertyName, v, 1)

SaveGet == \E d \in SaveDevices : Get(d, g_SaveSettingsPropertyName, 1)

NextSave == SaveInitialize \/ SaveSet \/ SaveGet

SpecSave == InitSave /\ [][NextSave]_vars

\* the letter the choice names
LetterOfChoice(v) ==
    CASE v = g_SaveSettingsX -> "X"
      [] v = g_SaveSettingsY -> "Y"
      [] v = g_SaveSettingsZ -> "Z"
      [] OTHER -> ""

\* the letter the card's handler sends for the choice
LetterSent(d, v) ==
    CASE devs[d].kind = CPMT -> PMTSaveLetter(v)
      [] devs[d].kind = CPLogic -> PLSaveLetter(v)
      [] OTHER -> XYSaveLetter(v)

SaveCall == last.act = "set" /\ last.prop = g_SaveSettingsPropertyName

\* the last call sent one command, the save command of the letter, followed
\* by the delay of 200 ms, and where it was acknowledged the property is
\* at its done value
OneSaveCommand(letter) ==
    /\ Cardinality(WireCommands) = 1
    /\ \A i \in WireCommands :
          /\ last.ev[i].cmd.k = "SS " \o letter
          /\ last.ev[i].cmd.ax = devs[last.dev].addr
          /\ last.ev[i].cmd.delay = 200
          /\ last.ev[i].ok =>
                devs[last.dev].props[g_SaveSettingsPropertyName] = g_SaveSettingsDone

\* C32: a set of the save-settings property to its X, Y or Z choice sends
\* exactly one SS command with the letter of the choice and the delay of
\* 200 ms and leaves the property at its done value; the original and the
\* done value send nothing
C32_SaveSendsLetterOfChoice ==
    SaveCall =>
        IF last.val \in {g_SaveSettingsX, g_SaveSettingsY, g_SaveSettingsZ}
        THEN OneSaveCommand(LetterOfChoice(last.val))
        ELSE WireCommands = {}

\* what the code does: the letter is the one the card's handler picks (the
\* XY stage and the PLogic card send X for the choice Y)
C32_SaveSendsLetterOfHandler ==
    SaveCall =>
        IF last.val \in {g_SaveSettingsX, g_SaveSettingsY, g_SaveSettingsZ}
        THEN OneSaveCommand(LetterSent(last.dev, last.val))
        ELSE WireCommands = {}

-----------------------------------------------------------------------------
(* Specification SpecInput: the joystick and wheel speeds and their        *)
(* mirror properties on the two stages of card 1                           *)

InputHosts == {"zs", "xy"}

InputSpeedProps ==
    {g_JoystickFastSpeedPropertyName, g_JoystickSlowSpeedPropertyName,
     g_WheelFastSpeedPropertyName, g_WheelSlowSpeedPropertyName}

InputSets ==
    {<<g_JoystickMirrorPropertyName, g_YesState>>, <<g_JoystickMirrorPropertyName, g_NoState>>,
     <<g_JoystickSlowSpeedPropertyName, 20>>,
     <<g_WheelMirrorPropertyName, g_YesState>>, <<g_WheelSlowSpeedPropertyName, 3>>,
     <<g_RefreshPropValsPropertyName, g_YesState>>}

InitInput == InitWith(Hw0, Peripherals(314, 351))

InputInitialize == \E d \in InputHosts : Initialize(d)

InputSet == \E d \in InputHosts : \E pv \in InputSets : Set(d, pv[1], pv[2], 2)

InputGet ==
    \E d \in InputHosts :
       \E p \in {g_JoystickSlowSpeedPropertyName, g_WheelSlowSpeedPropertyName} : Get(d, p, 2)

NextInput == InputInitialize \/ InputSet \/ InputGet

SpecInput == InitInput /\ [][NextInput]_vars

\* the last call was a set of prop that returned DEVICE_OK
SetDone(prop) == last.act = "set" /\ last.prop = prop /\ last.ret = DEVICE_OK

\* the last call left its host mirrored with a slow speed above zero
MirroredSlowSpeed ==
    /\ SetDone(g_JoystickMirrorPropertyName) \/ SetDone(g_JoystickSlowSpeedPropertyName)
    /\ devs[last.dev].props[g_JoystickMirrorPropertyName] = g_YesState
    /\ devs[last.dev].props[g_JoystickSlowSpeedPropertyName] > 0

SpeedsWithinLimits ==
    \A d \in InputHosts :
       \A p \in InputSpeedProps \cap DOMAIN devs[d].props :
          devs[d].props[p] >= 0 /\ devs[d].props[p] <= 100

\* C33: the joystick and wheel speed properties are never negative, and
\* with the joystick mirrored a forced-refresh read of JoystickSlowSpeed
\* succeeds and returns the magnitude that was set
C33_MirroredSlowSpeedReadable ==
    /\ SpeedsWithinLimits
    /\ MirroredSlowSpeed =>
          ForcedRead(hw, devs, st, last.dev, g_JoystickSlowSpeedPropertyName)
             = <<DEVICE_OK, devs[last.dev].props[g_JoystickSlowSpeedPropertyName]>>

\* what the code does: the speeds stay within their limits; the forced
\* read of the fast speed returns the magnitude, and the forced read of
\* the slow speed, which hands the negative register to the property,
\* fails with DEVICE_INVALID_PROPERTY_VALUE and leaves the cache
C33_MirroredSlowSpeedRefused ==
    /\ SpeedsWithinLimits
    /\ MirroredSlowSpeed =>
          /\ ForcedRead(hw, devs, st, last.dev, g_JoystickSlowSpeedPropertyName)
                = <<DEVICE_INVALID_PROPERTY_VALUE,
                    devs[last.dev].props[g_JoystickSlowSpeedPropertyName]>>
          /\ ForcedRead(hw, devs, st, last.dev, g_JoystickFastSpeedPropertyName)[1] = DEVICE_OK

-----------------------------------------------------------------------------
(* C34 *)

\* the values the last call wrote to the slow wheel speed of the card
WheelSlowWrites ==
    {last.ev[i].cmd.v : i \in {j \in WireCommands :
                                  last.ev[j].cmd.k = "JST" /\ ~last.ev[j].cmd.q /\ last.ev[j].ok}}

\* C34: the value a set of WheelSlowSpeed writes is negative exactly when
\* the wheel mirror property of the host is Yes, whatever the joystick
\* mirror property is
C34_WheelSlowSignFollowsWheelMirror ==
    SetDone(g_WheelSlowSpeedPropertyName) =>
        /\ WheelSlowWrites # {}
        /\ \A v \in WheelSlowWrites :
              (v < 0) <=> (devs[last.dev].props[g_WheelMirrorPropertyName] = g_YesState)

\* the mirror property a host's handler of the slow wheel speed consults
MirrorConsulted(d) ==
    IF devs[d].kind = CXYStage THEN g_JoystickMirrorPropertyName
    ELSE g_WheelMirrorPropertyName

\* what the code does: the mixin consults the wheel mirror, the XY stage
\* the joystick mirror
C34_WheelSlowSignFollowsConsulted ==
    SetDone(g_WheelSlowSpeedPropertyName) =>
        /\ WheelSlowWrites # {}
        /\ \A v \in WheelSlowWrites :
              (v < 0) <=> (devs[last.dev].props[MirrorConsulted(last.dev)] = g_YesState)

-----------------------------------------------------------------------------
(* C35 *)

\* the last command of a call that is not a query
LastWriteOf(ev) ==
    LET W == {i \in DOMAIN ev : ev[i].t = "cmd" /\ ~ev[i].cmd.q}
    IN  IF W = {} THEN NoCmd
        ELSE ev[CHOOSE i \in W : \A j \in W : j <= i].cmd

\* the set of JoystickEnabled to Yes made from the current state, against a
\* controller that answers, with the refresh flag off or on
ReEnabled(refresh) ==
    SetProperty(NewCtx(hw, [devs EXCEPT !["xy"].refreshProps = refresh], st), {}, "xy",
                g_JoystickEnabledPropertyName, g_YesState)

\* the joystick was rotated and the last call disabled it
RotatedAndDisabled ==
    /\ last.act = "set" /\ last.dev = "xy" /\ last.prop = g_JoystickEnabledPropertyName
    /\ last.val = g_NoState /\ last.ret = DEVICE_OK
    /\ last.devs0["xy"].props[g_JoystickRotatePropertyName] = g_YesState
    /\ devs["xy"].props[g_JoystickRotatePropertyName] = g_YesState

\* C35: after JoystickRotate = Yes and JoystickEnabled = No, the set of
\* JoystickEnabled to Yes writes the rotated mapping J X=3 Y=2 and leaves
\* JoystickRotate at Yes, with the refresh flag off and on
C35_RotationSurvivesReEnable ==
    RotatedAndDisabled =>
        \A refresh \in BOOLEAN :
           /\ ReEnabled(refresh).ret = DEVICE_OK
           /\ LastWriteOf(ReEnabled(refresh).ev) = JoystickCommand(devs["xy"], 3, 2)
           /\ ReEnabled(refresh).devs["xy"].props[g_JoystickRotatePropertyName] = g_YesState

\* what the code does: with the refresh flag off the cached choice is
\* used; with the flag on JoystickRotate is re-read from the disabled
\* joystick, reads No, and the mapping written is J X=2 Y=3
C35_RotationLostUnderRefresh ==
    RotatedAndDisabled =>
        /\ ReEnabled(FALSE).ret = DEVICE_OK
        /\ LastWriteOf(ReEnabled(FALSE).ev) = JoystickCommand(devs["xy"], 3, 2)
        /\ ReEnabled(FALSE).devs["xy"].props[g_JoystickRotatePropertyName] = g_YesState
        /\ ReEnabled(TRUE).ret = DEVICE_OK
        /\ LastWriteOf(ReEnabled(TRUE).ev) = JoystickCommand(devs["xy"], 2, 3)
        /\ ReEnabled(TRUE).devs["xy"].props[g_JoystickRotatePropertyName] = g_NoState

-----------------------------------------------------------------------------
(* Specification SpecSeq: the sequencing of the XY stage *)

SeqFirmware == {308, 314}

SeqBuilds == {{}, {"IN0_INT"}}

SeqDefines == {"", "RING BUFFER", "RING BUFFER 50"}

InitSeq ==
    \E fw \in SeqFirmware : \E b \in SeqBuilds : \E rb \in SeqDefines :
    \E ap \in {0, BIT1} :
        InitWith([Hw0 EXCEPT !.build["1"] = b, !.rbDefine["1"] = rb, !.vAxesProps["1"] = ap],
                 [Peripherals(314, 351) EXCEPT !["xy"].fw = fw])

SeqCalls ==
    {"StartXYStageSequence", "StopXYStageSequence", "SendXYStageSequence",
     "ClearXYStageSequence", "AddToXYStageSequence"}

\* the call of the sequence interface named api
SeqCallOf(c, F, d, api) ==
    CASE api = "StartXYStageSequence" -> StartXYStageSequence(c, F, d)
      [] api = "StopXYStageSequence" -> StopXYStageSequence(c, F, d)
      [] api = "SendXYStageSequence" -> SendXYStageSequence(c, F, d)
      [] api = "ClearXYStageSequence" -> ClearXYStageSequence(c, F, d)
      [] api = "AddToXYStageSequence" -> AddToXYStageSequence(c, F, d, 7, 9)

SeqInitialize == Initialize("xy")

SeqSet == \E v \in {g_NoState, g_YesState} : Set("xy", g_UseSequencePropertyName, v, 1)

SeqGet == Get("xy", g_UseSequencePropertyName, 1)

SeqCall ==
    /\ calls < MaxCalls
    /\ devs["xy"].initialized
    /\ \E api \in SeqCalls : \E F \in FailSets(2) :
          \E c \in {SeqCallOf(NewCtx(hw, devs, st), F, "xy", api)} :
              Reached(c, F) /\ Commit(c, "xy", api, "api", "")

NextSeq == SeqInitialize \/ SeqSet \/ SeqGet \/ SeqCall

SpecSeq == InitSeq /\ [][NextSeq]_vars

\* C36: sequencing enabled implies TTL triggering supported, which implies
\* a ring buffer supported with a capacity that is not zero; a set of
\* UseSequence to Yes on a stage without TTL support leaves sequencing
\* disabled and the property at No
C36_SequencingNeedsSupport ==
    LET xy == devs["xy"]
    IN  /\ xy.ttl_trigger_enabled => xy.ttl_trigger_supported
        /\ xy.ttl_trigger_supported =>
              xy.ring_buffer_supported /\ xy.ring_buffer_capacity # 0
        /\ IsStageSequenceable(xy) = xy.ttl_trigger_enabled
        /\ (/\ last.act = "set" /\ last.prop = g_UseSequencePropertyName
            /\ last.val = g_YesState /\ ~xy.ttl_trigger_supported)
           => /\ ~IsStageSequenceable(xy)
              /\ xy.props[g_UseSequencePropertyName] = g_NoState

\* UseSequence was set to Yes on a stage with a ring buffer and no TTL
\* trigger
C36_Witness ==
    /\ last.act = "set" /\ last.prop = g_UseSequencePropertyName /\ last.val = g_YesState
    /\ last.ret = DEVICE_OK
    /\ devs["xy"].ring_buffer_supported /\ ~devs["xy"].ttl_trigger_supported
    /\ devs["xy"].props[g_UseSequencePropertyName] = g_NoState

\* C37: without TTL-trigger support each call of the sequence interface
\* returns DEVICE_UNSUPPORTED_COMMAND, sends no command and leaves the
\* stored sequence as it was
C37_UnsupportedSequenceCalls ==
    (last.act = "api" /\ ~last.devs0["xy"].ttl_trigger_supported) =>
        /\ last.ret = DEVICE_UNSUPPORTED_COMMAND
        /\ WireCommands = {}
        /\ devs["xy"].sequenceX = last.devs0["xy"].sequenceX
        /\ devs["xy"].sequenceY = last.devs0["xy"].sequenceY
        /\ hw = last.hw0

\* a point was offered to a stage with a ring buffer and no TTL trigger
C37_Witness ==
    /\ last.act = "api" /\ last.prop = "AddToXYStageSequence"
    /\ devs["xy"].ring_buffer_supported /\ ~devs["xy"].ttl_trigger_supported
    /\ last.ret = DEVICE_UNSUPPORTED_COMMAND
    /\ devs["xy"].sequenceX = <<>>

====
